---- MODULE Spec2Model ----
(***************************************************************************)
(* Model of ircbot.util.Throttle (src/util.py) and of the way the Bot      *)
(* (src/__init__.py) drives it; of ircbot.util.DependencyDict              *)
(* (src/util.py); and of Command.__call__ (src/commands).                  *)
(* The three objects do not interact: each has its own specification,     *)
(* in which the variables of the other two keep their initial values.     *)
(*                                                                         *)
(* Scheduling: everything runs on one cooperative event loop.  The code    *)
(* between two suspension points of Throttle.run() is executed without     *)
(* interruption, so a run loop whose position is "top", "flush" or         *)
(* "noqueue" always takes the next step itself.  Other callers act when    *)
(* every loop is suspended, or from inside a callback the loop has invoked *)
(* (a queued item, position "exec"; on_clear, position "on_clear").        *)
(*                                                                         *)
(* Time: the clock is read in whole time units, Rate of them per           *)
(* replenishment interval.  `elapsed` is _now() - self.last.  The bucket   *)
(* level `free` is kept in units of 1/Rate, so that the fractional         *)
(* recovery ticks*amount of the code is exact: Scaled(x) is x bucket units.*)
(***************************************************************************)
EXTENDS Integers, Sequences, FiniteSets, TLC

\* ---------------------------------------------------------------- bounds
MaxItems == 3
Burst == 2
Rate == 1
MaxWaiters == 2
MaxLoops == 2
MaxBindings == 2
MaxArgs == 2
MaxText == 5
MaxShort == 4
MaxRegister == 2
MaxCache == 1

\* amount=1 is the constructor's default, and the Bot never passes another.
Amount == 1

\* Costs range from 1 to one more than the bucket holds (an oversized item).
MaxCost == Burst + 1
Ids == 1..MaxItems
Costs == 1..MaxCost
Loops == 1..MaxLoops
Waiters == 1..MaxWaiters

VARIABLES
    rate,            \* self.rate, in time units (0 disables throttling)
    on_clear,        \* self.on_clear: "None" or "callback"
    free,            \* self.free, in units of 1/Rate
    elapsed,         \* self._now() - self.last, capped where it no longer matters
    queue,           \* self.queue: sequence of [id, cost]
    running,         \* self.running
    stop_condition,  \* self._stop_condition: <<>> is None, <<W>> a Condition with waiters W
    pc,              \* position of each run() coroutine
    cur,             \* the item a coroutine has popped and is executing
    timer,           \* time left of a coroutine's sleep / timed wait
    task,            \* each wait_for_stop() caller: "idle", "waiting", "resumed"
    nextId,          \* history: id the next appended item gets
    executed,        \* history: ids in the order run() started executing them
    cleared,         \* history: ids removed by clear()
    dropped,         \* history: ids removed by reset()
    allUnit,         \* history: every item appended so far had cost 1
    sinceClear,      \* history: "never" (on_clear not yet invoked), "none" / "some"
                     \* (items executed since on_clear's last invocation)
    \* ---- DependencyDict
    get_priority,    \* self.get_priority: TRUE (the default) or FALSE
    data,            \* self._data: sequence of [key, value], value a DependencyItem
    solved,          \* self._solved
    asked,           \* history: the arguments each key's item was constructed from
    outcome,         \* what the last iteration did, "none" once the dict was mutated
    \* ---- Command
    impl,            \* which Command.__call__ runs: "package" or "module"
    bindings,        \* self.bindings: sequence of bindings
    usage,           \* self.usage is set
    arglist,         \* len(event.arglist)
    at,              \* position of __call__: 0 not called, i in the loop at binding i
    tried,           \* history: the bindings that were called, in order, and how each ended
    error,           \* the local `error` (NoError is None); error_binding is its `by`
    result,          \* how __call__ ended: what it returned or raised
    event_binding,   \* event.binding: the binding's position, 0 for None
    \* ---- Binding
    paramstring,     \* the parameter string: sequence of whitespace-separated chunks
    compiled,        \* what Binding(function, paramstring) gave: the Binding or the error
    text,            \* event.text of the last call of the binding
    called,          \* how binding(event) ended: the handler's arguments or the error
    \* ---- Registry
    cachesize,       \* self._cache: the size of the lookup cache, 0 for none
    aliases,         \* self.aliases: lowercased alias -> command
    patterns,        \* self.patterns._data: sequence of [key, value], value a DependencyItem
    patterns_solved, \* self.patterns._solved
    commands,        \* self.commands
    lru,             \* contents of the lru_cache around _pattern_lookup, latest first
    found,           \* how the last lookup() ended, "none" once register() was called
    searched,        \* the argument of the last lookup()
    register_raised, \* the last call was a register() that raised ValueError
    prior,           \* history: aliases and commands when a register() that raised began
    missed,          \* history: searches the cache held None for when it was last cleared
    \* ---- Bot: the connection and its global Throttle
    connected,       \* between on_connect() and on_disconnect()
    scheduled,       \* eventloop.schedule(self.global_throttle.run) calls not yet made
    \* ---- Bot: throttled sends
    config,          \* self.config.throttle: channel_rate and user_rate
    target_throttles,\* self.target_throttles: target -> position in throttles, 0 for none
    throttles,       \* every per-target Throttle created so far
    global_queue,    \* self.global_throttle.queue
    direct,          \* the sends given to eventloop.schedule() as they are
    sent,            \* history: the sends made, in order
    charged,         \* history: the sends the global Throttle's run loop executed
    asked_lines,     \* history: the lines given to the message()/notice()/throttled()
                     \* calls that returned
    handed,          \* history: the lines that reached throttled()
    calls,           \* history: number of message()/notice()/throttled() calls
    bot_raised,      \* what the last call raised, "none" if it returned
    \* ---- UserTrackingClient.whois
    pending,         \* self._pending['whois']: the nicknames that have a Future
    in_flight,       \* the WHOIS requests sent for each nickname and not yet answered
    awaited,         \* the nicknames whose Future each caller was returned and waits for
    received         \* history: the nicknames each caller has got a result for

throttle_vars == <<rate, on_clear, free, elapsed, queue, running, stop_condition, pc, cur,
                   timer, task, nextId, executed, cleared, dropped, allUnit, sinceClear>>
dep_vars == <<get_priority, data, solved, asked, outcome>>
cmd_vars == <<impl, bindings, usage, arglist, at, tried, error, result, event_binding>>
bind_vars == <<paramstring, compiled, text, called>>
reg_vars == <<cachesize, aliases, patterns, patterns_solved, commands, lru, found, searched,
              register_raised, prior, missed>>

conn_vars == <<connected, scheduled>>
bot_vars == <<config, target_throttles, throttles, global_queue, direct, sent, charged,
              asked_lines, handed, calls, bot_raised>>
who_vars == <<pending, in_flight, awaited, received>>
client_vars == <<conn_vars, bot_vars, who_vars>>

vars == <<throttle_vars, dep_vars, cmd_vars, bind_vars, reg_vars, client_vars>>

hist == <<nextId, executed, cleared, dropped, allUnit, sinceClear>>

\* ---------------------------------------------------------------- helpers
Min(a, b) == IF a < b THEN a ELSE b
Max(a, b) == IF a > b THEN a ELSE b
CeilDiv(a, b) == IF a <= 0 THEN 0 ELSE (a + b - 1) \div b
Range(s) == {s[i] : i \in 1..Len(s)}
QueueIds(q) == [i \in 1..Len(q) |-> q[i].id]

Scaled(x) == x * Rate

None == <<>>
Condition(waiters) == <<waiters>>
NoItem == [id |-> 0, cost |-> 0]

\* Beyond this, more elapsed time changes neither a recovery nor a timeout.
ElapsedCap == CeilDiv(Scaled(MaxCost), Amount)

\* what a Throttle never touches
outside == <<dep_vars, cmd_vars, bind_vars, reg_vars, client_vars>>

BusyPcs == {"top", "flush", "noqueue", "raising"}
WaitPcs == {"wait_work", "wait_timed"}
ActiveLoops == {l \in Loops : pc[l] # "none"}
NoneBusy == \A l \in Loops : pc[l] \notin BusyPcs
OthersIdle(l) == \A m \in Loops \ {l} : pc[m] \notin BusyPcs

\* ---------------------------------------------------------------- Init
\* Throttle(burst, r, on_clear=...)
ThrottleInit(r) ==
    /\ rate = r
    /\ on_clear \in {"None", "callback"}
    /\ free = Scaled(Burst)
    /\ elapsed = 0
    /\ queue = <<>>
    /\ running = FALSE
    /\ stop_condition = None
    /\ pc = [l \in Loops |-> "none"]
    /\ cur = [l \in Loops |-> NoItem]
    /\ timer = [l \in Loops |-> 0]
    /\ task = [w \in Waiters |-> "idle"]
    /\ nextId = 1
    /\ executed = <<>>
    /\ cleared = {}
    /\ dropped = {}
    /\ allUnit = TRUE
    /\ sinceClear = "never"

\* DependencyDict(): empty, unsolved
NoDict ==
    /\ get_priority = TRUE
    /\ data = <<>>
    /\ solved = FALSE
    /\ asked = [k \in {"a", "b", "c"} |-> [before |-> {}, after |-> {}, required_by |-> {},
                                           requires |-> {}, priority |-> -1]]
    /\ outcome = "none"

\* Command() before any binding is attached
\* An exception: its class, its `final` flag, whether its message is non-empty, and
\* the binding it was raised by (0: by Command.__call__ itself).
Error(kind, final, message, by) ==
    [kind |-> kind, final |-> final, message |-> message, by |-> by]

\* `error_binding, error = None, None`
NoError == Error("None", FALSE, FALSE, 0)

\* __call__ has not ended
NoResult == [how |-> "none", by |-> 0, error |-> NoError]

NoCommand ==
    /\ impl = "package"
    /\ bindings = <<>>
    /\ usage = FALSE
    /\ arglist = 0
    /\ at = 0
    /\ tried = <<>>
    /\ error = NoError
    /\ result = NoResult
    /\ event_binding = 0

\* no Binding has been constructed and none called
NotCompiled == [state |-> "none"]
NotCalled == [how |-> "none"]

NoBinding ==
    /\ paramstring = <<>>
    /\ compiled = NotCompiled
    /\ text = <<>>
    /\ called = NotCalled

\* lookup() has not been called
NotFound == [how |-> "none", command |-> 0]

\* Registry(cachesize=size), nothing registered
NewRegistry(size) ==
    /\ cachesize = size
    /\ aliases = <<>>
    /\ patterns = <<>>
    /\ patterns_solved = FALSE
    /\ commands = {}
    /\ lru = <<>>
    /\ found = NotFound
    /\ searched = <<>>
    /\ register_raised = FALSE
    /\ prior = <<<<>>, {}>>
    /\ missed = {}

NoRegistry == NewRegistry(0)

\* Bot.__init__: not connected, nothing scheduled.
NoConnection ==
    /\ connected = FALSE
    /\ scheduled = 0

BotTargets == {"#chan", "nick", ""}
Mapped == BotTargets \ {""}

\* Bot.__init__ with the throttle section r: target_throttles = {}, an empty global queue.
NewBot(r) ==
    /\ config = r
    /\ target_throttles = [t \in Mapped |-> 0]
    /\ throttles = <<>>
    /\ global_queue = <<>>
    /\ direct = <<>>
    /\ sent = <<>>
    /\ charged = {}
    /\ asked_lines = {}
    /\ handed = {}
    /\ calls = 0
    /\ bot_raised = "none"

\* ThrottleConfigSection.read(): the defaults, in whole time units.
Defaults == [channel_rate |-> 0, user_rate |-> 1]
NoBot == NewBot(Defaults)

MaxCallers == 2
Callers == 1..MaxCallers
Nicks == {"alice", "bob"}

\* nothing is pending, no caller waits
NoWhois ==
    /\ pending = {}
    /\ in_flight = [n \in Nicks |-> 0]
    /\ awaited = [c \in Callers |-> {}]
    /\ received = [c \in Callers |-> {}]
NoClient == NoConnection /\ NoBot /\ NoWhois

Init == ThrottleInit(Rate) /\ NoDict /\ NoCommand /\ NoBinding /\ NoRegistry /\ NoClient

\* ---------------------------------------------------------------- Throttle methods
\* wake(): self._wake_condition.notify_all().  Only run() waits on that condition;
\* a notification with no waiter is lost (tornado.locks.Condition keeps no flag).
Woken(p) == [l \in Loops |-> IF p[l] \in WaitPcs THEN "woken" ELSE p[l]]

\* a clear() that leaves the head of the queue behind
ClearedQueueKeepsHead(q) == IF q = <<>> THEN q ELSE <<Head(q)>>

\* clear(): self.queue.clear()
ClearedQueue(q) == <<>>

\* add(): self.queue.append(item); self.wake()
Add(c) ==
    /\ UNCHANGED outside
    /\ NoneBusy
    /\ nextId <= MaxItems
    /\ queue' = Append(queue, [id |-> nextId, cost |-> c])
    /\ nextId' = nextId + 1
    /\ allUnit' = (allUnit /\ c = 1)
    /\ pc' = Woken(pc)
    /\ UNCHANGED <<rate, on_clear, free, elapsed, running, stop_condition, cur, timer,
                   task, executed, cleared, dropped, sinceClear>>

\* extend(): self.queue.extend(items); self.wake() -- one wake for the whole batch
Extend(c1, c2) ==
    /\ UNCHANGED outside
    /\ NoneBusy
    /\ nextId + 1 <= MaxItems
    /\ queue' = queue \o << [id |-> nextId, cost |-> c1], [id |-> nextId + 1, cost |-> c2] >>
    /\ nextId' = nextId + 2
    /\ allUnit' = (allUnit /\ c1 = 1 /\ c2 = 1)
    /\ pc' = Woken(pc)
    /\ UNCHANGED <<rate, on_clear, free, elapsed, running, stop_condition, cur, timer,
                   task, executed, cleared, dropped, sinceClear>>

\* wake() called directly
Wake ==
    /\ UNCHANGED outside
    /\ NoneBusy
    /\ pc' = Woken(pc)
    /\ UNCHANGED <<rate, on_clear, free, elapsed, queue, running, stop_condition, cur,
                   timer, task, hist>>

\* stop(): a NEW Condition replaces self._stop_condition, then the loop is woken.
Stop ==
    /\ UNCHANGED outside
    /\ NoneBusy
    /\ stop_condition' = Condition({})
    /\ pc' = Woken(pc)
    /\ UNCHANGED <<rate, on_clear, free, elapsed, queue, running, cur, timer, task, hist>>

\* wait_for_stop(): self.stop(); yield self._stop_condition.wait()
WaitForStop(w) ==
    /\ UNCHANGED outside
    /\ NoneBusy
    /\ task[w] = "idle"
    /\ stop_condition' = Condition({w})
    /\ task' = [task EXCEPT ![w] = "waiting"]
    /\ pc' = Woken(pc)
    /\ UNCHANGED <<rate, on_clear, free, elapsed, queue, running, cur, timer, hist>>

\* clear()
Clear ==
    /\ UNCHANGED outside
    /\ NoneBusy
    /\ queue # <<>>
    /\ queue' = ClearedQueue(queue)
    /\ cleared' = cleared \cup Range(QueueIds(queue))
    /\ UNCHANGED <<rate, on_clear, free, elapsed, running, stop_condition, pc, cur,
                   timer, task, nextId, executed, dropped, allUnit, sinceClear>>

\* reset(): self.stop(); self.clear()
ResetCall ==
    /\ stop_condition' = Condition({})
    /\ pc' = Woken(pc)
    /\ queue' = ClearedQueue(queue)
    /\ dropped' = dropped \cup Range(QueueIds(queue))
    /\ UNCHANGED <<rate, on_clear, free, elapsed, running, cur, timer, task, nextId,
                   executed, cleared, allUnit, sinceClear>>

Reset ==
    /\ UNCHANGED outside
    /\ NoneBusy
    /\ ResetCall

\* Time passes.
Tick ==
    /\ UNCHANGED outside
    /\ NoneBusy
    /\ elapsed' = IF free >= Scaled(Burst) THEN elapsed ELSE Min(elapsed + 1, ElapsedCap)
    /\ timer' = [l \in Loops |-> Max(timer[l] - 1, 0)]
    /\ UNCHANGED <<rate, on_clear, free, queue, running, stop_condition, pc, cur,
                   task, hist>>

\* ---------------------------------------------------------------- Throttle.run
\* a run() without the `if self.running` test
RunStartsAlways == TRUE

\* `if self.running: return False`
RunStarts == ~running

\* The slot the new coroutine takes.
FreeSlot == CHOOSE l \in Loops : pc[l] = "none" /\ \A m \in Loops : pc[m] = "none" => l <= m

\* run() is called (by eventloop.schedule, or directly).
RunCall ==
    IF RunStarts /\ (\E l \in Loops : pc[l] = "none")
    THEN /\ running' = TRUE
         /\ stop_condition' = None
         /\ pc' = [pc EXCEPT ![FreeSlot] = "top"]
         /\ UNCHANGED <<rate, on_clear, free, elapsed, queue, cur, timer, task, hist>>
    ELSE UNCHANGED throttle_vars

Run ==
    /\ UNCHANGED outside
    /\ NoneBusy
    /\ RunCall

\* The `finally` of run(): notify the waiters of the current stop condition.
Notified(t, sc) ==
    [w \in Waiters |-> IF sc # None /\ w \in sc[1] /\ t[w] = "waiting"
                       THEN "resumed" ELSE t[w]]
Drained(sc) == IF sc = None THEN None ELSE Condition({})

Exit(l) ==
    /\ task' = Notified(task, stop_condition)
    /\ stop_condition' = Drained(stop_condition)
    /\ running' = FALSE
    /\ pc' = [pc EXCEPT ![l] = "none"]
    /\ cur' = [cur EXCEPT ![l] = NoItem]
    /\ timer' = [timer EXCEPT ![l] = 0]

\* a recovery that forgets the min(..., self.burst)
RecoveredUnclamped(f, e) == f + (e * Amount * Rate) \div rate

\* capacity recovered at the top of the loop
Recovered(f, e) == Min(f + (e * Amount * Rate) \div rate, Scaled(Burst))

\* `while not self._stop_condition:` and "Recover capacity"
LoopTop(l) ==
    /\ UNCHANGED outside
    /\ pc[l] = "top"
    /\ OthersIdle(l)
    /\ IF stop_condition # None
       THEN /\ Exit(l)
            /\ UNCHANGED <<rate, on_clear, free, elapsed, queue, hist>>
       ELSE /\ IF rate # 0 /\ free < Scaled(Burst)
               THEN /\ free' = Recovered(free, elapsed)
                    /\ elapsed' = 0
               ELSE UNCHANGED <<free, elapsed>>
            /\ pc' = [pc EXCEPT ![l] = "flush"]
            /\ UNCHANGED <<rate, on_clear, queue, running, stop_condition, cur, timer,
                           task, hist>>

\* time to sleep until `c` units are affordable
CapacityTimeout(c) ==
    CeilDiv(rate * (Scaled(Min(c, Burst)) - free), Rate * Amount) - elapsed

\* a test that lets the head item start whenever the bucket is not in debt
CanExecuteNoDebt(c) == free >= 0

\* a test that lets the head item start whatever the bucket holds
CanExecuteInDebt(c) == TRUE

\* the head item may start now
CanExecute(c) == free >= Scaled(Burst) \/ Scaled(c) <= free

\* queue.pop() in place of queue.popleft()
PopRight(q) == SubSeq(q, 1, Len(q) - 1)

\* queue.popleft()
PopLeft(q) == Tail(q)

\* "Flush the queue": one pass of `while self.queue:` up to the call of event()
Flush(l) ==
    /\ UNCHANGED outside
    /\ pc[l] = "flush"
    /\ OthersIdle(l)
    /\ IF queue = <<>>
       THEN /\ pc' = [pc EXCEPT ![l] = "noqueue"]
            /\ UNCHANGED <<free, elapsed, queue, cur, timer, executed, sinceClear>>
       ELSE LET item == Head(queue) IN
            IF CanExecute(item.cost)
            THEN /\ elapsed' = IF free >= Scaled(Burst) THEN 0 ELSE elapsed
                 /\ queue' = PopLeft(queue)
                 /\ free' = free - Scaled(item.cost)
                 /\ cur' = [cur EXCEPT ![l] = item]
                 /\ pc' = [pc EXCEPT ![l] = "exec"]
                 /\ executed' = Append(executed, item.id)
                 /\ sinceClear' = IF sinceClear = "never" THEN "never" ELSE "some"
                 /\ UNCHANGED timer
            ELSE /\ IF CapacityTimeout(item.cost) > 0
                    THEN /\ pc' = [pc EXCEPT ![l] = "sleep_cap"]
                         /\ timer' = [timer EXCEPT ![l] = CapacityTimeout(item.cost)]
                    ELSE /\ pc' = [pc EXCEPT ![l] = "noqueue"]
                         /\ UNCHANGED timer
                 /\ UNCHANGED <<free, elapsed, queue, cur, executed, sinceClear>>
    /\ UNCHANGED <<rate, on_clear, running, stop_condition, task, nextId, cleared,
                   dropped, allUnit>>

\* event() returns a value that is no future: the inner loop goes on
ItemReturns(l) ==
    /\ UNCHANGED outside
    /\ pc[l] = "exec"
    /\ OthersIdle(l)
    /\ pc' = [pc EXCEPT ![l] = "flush"]
    /\ cur' = [cur EXCEPT ![l] = NoItem]
    /\ UNCHANGED <<rate, on_clear, free, elapsed, queue, running, stop_condition,
                   timer, task, hist>>

\* event() returns a future: `yield result`
ItemYields(l) ==
    /\ UNCHANGED outside
    /\ pc[l] = "exec"
    /\ OthersIdle(l)
    /\ pc' = [pc EXCEPT ![l] = "await_item"]
    /\ UNCHANGED <<rate, on_clear, free, elapsed, queue, running, stop_condition,
                   cur, timer, task, hist>>

\* event() raises: the exception leaves the inner loop
ItemRaises(l) ==
    /\ UNCHANGED outside
    /\ pc[l] = "exec"
    /\ OthersIdle(l)
    /\ pc' = [pc EXCEPT ![l] = "raising"]
    /\ UNCHANGED <<rate, on_clear, free, elapsed, queue, running, stop_condition,
                   cur, timer, task, hist>>

\* an `except` that swallows the exception and goes on with the queue
UnwindSwallowed(l) ==
    /\ UNCHANGED outside
    /\ pc[l] = "raising"
    /\ OthersIdle(l)
    /\ pc' = [pc EXCEPT ![l] = "flush"]
    /\ cur' = [cur EXCEPT ![l] = NoItem]
    /\ UNCHANGED <<rate, on_clear, free, elapsed, queue, running, stop_condition,
                   timer, task, hist>>

\* `except Exception as ex: ... raise ex`, then the `finally`: run() ends
Unwind(l) ==
    /\ UNCHANGED outside
    /\ pc[l] = "raising"
    /\ OthersIdle(l)
    /\ Exit(l)
    /\ UNCHANGED <<rate, on_clear, free, elapsed, queue, hist>>

\* `yield result` resumes; `if self._stop_condition: break`
AwaitDone(l) ==
    /\ UNCHANGED outside
    /\ pc[l] = "await_item"
    /\ OthersIdle(l)
    /\ pc' = [pc EXCEPT ![l] = IF stop_condition # None THEN "noqueue" ELSE "flush"]
    /\ cur' = [cur EXCEPT ![l] = NoItem]
    /\ UNCHANGED <<rate, on_clear, free, elapsed, queue, running, stop_condition, timer,
                   task, hist>>

\* `yield result` raises: the item's future ended with an exception
AwaitRaises(l) ==
    /\ UNCHANGED outside
    /\ pc[l] = "await_item"
    /\ OthersIdle(l)
    /\ pc' = [pc EXCEPT ![l] = "raising"]
    /\ UNCHANGED <<rate, on_clear, free, elapsed, queue, running, stop_condition,
                   cur, timer, task, hist>>

\* `yield tornado.gen.sleep(timeout)` is over; `break`
SleepDone(l) ==
    /\ UNCHANGED outside
    /\ pc[l] = "sleep_cap"
    /\ timer[l] = 0
    /\ OthersIdle(l)
    /\ pc' = [pc EXCEPT ![l] = "noqueue"]
    /\ UNCHANGED <<rate, on_clear, free, elapsed, queue, running, stop_condition, cur,
                   timer, task, hist>>

\* time until the bucket is full again
FullTimeout == CeilDiv(rate * (Scaled(Burst) - free), Rate * Amount) - elapsed

\* a test that takes the idle branch whatever the bucket holds
IdleNowAlways == TRUE

\* `if not self.on_clear or self.free >= self.burst`: nothing to wait for but work
IdleNow == on_clear = "None" \/ free >= Scaled(Burst)

\* "Handle the potential lack of a queue"
NoQueue(l) ==
    /\ UNCHANGED outside
    /\ pc[l] = "noqueue"
    /\ OthersIdle(l)
    /\ IF queue # <<>>
       THEN /\ pc' = [pc EXCEPT ![l] = "top"]
            /\ UNCHANGED <<timer, sinceClear>>
       ELSE IF IdleNow
            THEN IF on_clear # "None"
                 THEN /\ pc' = [pc EXCEPT ![l] = "on_clear"]
                      /\ sinceClear' = "none"
                      /\ UNCHANGED timer
                 ELSE /\ pc' = [pc EXCEPT ![l] = "wait_work"]
                      /\ UNCHANGED <<timer, sinceClear>>
            ELSE IF FullTimeout > 0
                 THEN /\ pc' = [pc EXCEPT ![l] = "wait_timed"]
                      /\ timer' = [timer EXCEPT ![l] = FullTimeout]
                      /\ UNCHANGED sinceClear
                 ELSE /\ pc' = [pc EXCEPT ![l] = "top"]
                      /\ UNCHANGED <<timer, sinceClear>>
    /\ UNCHANGED <<rate, on_clear, free, elapsed, queue, running, stop_condition, cur,
                   task, nextId, executed, cleared, dropped, allUnit>>

\* on_clear(self) returns; `yield self._wake_condition.wait()`
OnClearReturn(l) ==
    /\ UNCHANGED outside
    /\ pc[l] = "on_clear"
    /\ OthersIdle(l)
    /\ pc' = [pc EXCEPT ![l] = "wait_work"]
    /\ UNCHANGED <<rate, on_clear, free, elapsed, queue, running, stop_condition, cur,
                   timer, task, hist>>

\* the timed wait runs out; `continue`
WaitTimeout(l) ==
    /\ UNCHANGED outside
    /\ pc[l] = "wait_timed"
    /\ timer[l] = 0
    /\ OthersIdle(l)
    /\ pc' = [pc EXCEPT ![l] = "top"]
    /\ UNCHANGED <<rate, on_clear, free, elapsed, queue, running, stop_condition, cur,
                   timer, task, hist>>

\* the notified coroutine is resumed; `continue`
Resume(l) ==
    /\ UNCHANGED outside
    /\ pc[l] = "woken"
    /\ OthersIdle(l)
    /\ pc' = [pc EXCEPT ![l] = "top"]
    /\ timer' = [timer EXCEPT ![l] = 0]
    /\ UNCHANGED <<rate, on_clear, free, elapsed, queue, running, stop_condition, cur,
                   task, hist>>

LoopStep(l) ==
    \/ LoopTop(l)
    \/ Flush(l)
    \/ ItemReturns(l)
    \/ ItemYields(l)
    \/ ItemRaises(l)
    \/ Unwind(l)
    \/ AwaitDone(l)
    \/ AwaitRaises(l)
    \/ SleepDone(l)
    \/ NoQueue(l)
    \/ OnClearReturn(l)
    \/ WaitTimeout(l)
    \/ Resume(l)

Next ==
    \/ \E c \in Costs : Add(c)
    \/ \E c1 \in Costs, c2 \in Costs : Extend(c1, c2)
    \/ Wake
    \/ Stop
    \/ Clear
    \/ Reset
    \/ Run
    \/ Tick
    \/ \E l \in Loops : LoopStep(l)

Spec == Init /\ [][Next]_vars

\* The event loop keeps running callbacks, timers fire and futures resolve;
\* nothing obliges a caller to call the Throttle again.
FairSpec ==
    /\ Spec
    /\ \A l \in Loops : WF_vars(LoopStep(l))
    /\ SF_vars(Tick)

\* ---------------------------------------------------------------- claims
Removed == cleared \cup dropped
\* ids in the order they were appended, without those clear()/reset() removed
Kept == SelectSeq([i \in 1..(nextId - 1) |-> i], LAMBDA i : i \notin Removed)
IsPrefix(s, t) == Len(s) <= Len(t) /\ SubSeq(t, 1, Len(s)) = s

\* C1: the items run() has executed are, in order, a prefix of the items that were
\* appended and not removed by clear()/reset(); what follows that prefix is exactly
\* the queue, so nothing is executed early, twice, or lost.
C1_ExecutedIsFifoPrefix ==
    /\ IsPrefix(executed, Kept)
    /\ executed \o QueueIds(queue) = Kept

\* A unit item has been executed, and the loop sleeps on an item it cannot afford
\* although the item behind it is affordable.
C1_Witness ==
    /\ executed # <<>>
    /\ Len(queue) >= 2
    /\ Scaled(queue[1].cost) > free
    /\ Scaled(queue[2].cost) <= free
    /\ \E l \in Loops : pc[l] = "sleep_cap"

\* C2: an item is being executed only if, when it was started, the bucket was full
\* or held at least its cost; so a cost-1 item never starts with less than 1 unit
\* free, and when every appended item costs 1 the loop does not sleep for capacity
\* before Burst items have been executed.
C2_StartsOnlyWhenAffordable ==
    \A l \in Loops :
        /\ pc[l] = "exec" =>
              \/ free + Scaled(cur[l].cost) >= Scaled(Burst)
              \/ free >= 0
        /\ (pc[l] = "exec" /\ cur[l].cost = 1) => free >= 0
        /\ (pc[l] = "sleep_cap" /\ allUnit) => Len(executed) >= Burst

\* Burst cost-1 items were executed from the full bucket and the next one waits.
C2_Witness ==
    /\ allUnit
    /\ Len(executed) = Burst
    /\ queue # <<>>
    /\ free = 0
    /\ \E l \in Loops : pc[l] = "sleep_cap"

\* C3: the bucket never holds more than burst.
C3_FreeAtMostBurst == free <= Scaled(Burst)

\* The bucket is full again after an execution, having recovered.
C3_Witness ==
    /\ executed # <<>>
    /\ free = Scaled(Burst)
    /\ \E l \in Loops : pc[l] = "flush"

\* C5: at most one run() coroutine is active; while one is, `running` is set and a
\* further run() is turned away.
C5_SingleConsumer ==
    /\ Cardinality(ActiveLoops) <= 1
    /\ ActiveLoops # {} <=> running

\* run() is called from a queued item while the loop that executes the item is the
\* consumer: the call returns False and leaves this state as it is.
C5_Witness ==
    /\ running
    /\ queue # <<>>
    /\ \E l \in Loops : pc[l] = "exec" /\ ActiveLoops = {l}

\* C8: an item that reset() found in the queue is neither left in the queue nor
\* executed afterwards.
C8_ResetDropsForGood ==
    /\ dropped \cap Range(QueueIds(queue)) = {}
    /\ dropped \cap Range(executed) = {}

\* reset() removed an item, and an item appended after it has been executed.
C8_Witness ==
    \E d \in dropped : \E i \in 1..Len(executed) : executed[i] > d

\* the step in which loop l calls on_clear
InvokesOnClear(l) == pc[l] # "on_clear" /\ pc'[l] = "on_clear"

\* C9 (as amended): on_clear is invoked only when the queue is empty and the bucket is
\* full, each time the loop finds that state before it waits for work.
C9_OnClearOnlyWhenIdle ==
    [][\A l \in Loops : InvokesOnClear(l) =>
            /\ queue = <<>> /\ queue' = <<>>
            /\ free >= Scaled(Burst) /\ free' >= Scaled(Burst)
            /\ on_clear = "callback"]_vars

\* on_clear has been invoked after the queue was drained, and nothing has been
\* executed since.
C9_Witness ==
    /\ executed # <<>>
    /\ sinceClear = "none"
    /\ \E l \in Loops : pc[l] = "on_clear"

\* C9 (as claimed): moreover, between two invocations of on_clear an item has been
\* executed.
C9_OncePerDrain ==
    [][\A l \in Loops : InvokesOnClear(l) =>
            /\ queue = <<>>
            /\ free >= Scaled(Burst)
            /\ sinceClear # "none"]_vars

\* run() ended by an exception and no stop() was requested since
Crashed == ~running /\ stop_condition = None /\ executed # <<>>
LastExecuted == executed[Len(executed)]

\* C10: a raising item was popped and paid for before it was called; its exception
\* ends run() with running = False; the items behind it stay queued in their order,
\* and nothing is executed while no loop is active.
C10_RaiseEndsLoop ==
    [][/\ \A l \in Loops :
            /\ (pc[l] = "flush" /\ pc'[l] = "exec") =>
                  /\ cur'[l] = Head(queue)
                  /\ queue' = Tail(queue)
                  /\ free' = free - Scaled(Head(queue).cost)
            /\ pc[l] = "raising" =>
                  /\ pc'[l] = "none"
                  /\ ~running'
                  /\ queue' = queue /\ free' = free /\ executed' = executed
                  /\ cur[l].id \notin Range(QueueIds(queue'))
       /\ (ActiveLoops = {} /\ ActiveLoops' = {}) => executed' = executed
       /\ Crashed' =>
            /\ ActiveLoops' = {}
            /\ QueueIds(queue') = SelectSeq(Kept', LAMBDA i : i > LastExecuted')]_vars

\* An item raised; the items appended behind it are still queued.
C10_Witness == Crashed /\ queue # <<>>

\* C4: while a loop runs and no stop was requested, a queued item is eventually
\* executed (or removed by clear(), or the loop is stopped or ends).
C4_EveryItemExecutes ==
    \A i \in Ids :
        (i \in Range(QueueIds(queue)) /\ running /\ stop_condition = None)
            ~> (i \notin Range(QueueIds(queue)) \/ ~running \/ stop_condition # None)

\* C6: once stop() was called on a running Throttle, run() eventually ends.
C6_StopEndsLoop == (running /\ stop_condition # None) ~> ~running

\* C7: every caller of wait_for_stop() is eventually resumed.
C7_WaitersResumed == \A w \in Waiters : (task[w] = "waiting") ~> (task[w] = "resumed")

NextWait ==
    \/ Next
    \/ \E w \in Waiters : WaitForStop(w)

\* The Throttle with callers of wait_for_stop().
WaitSpec ==
    /\ Init /\ [][NextWait]_vars
    /\ \A l \in Loops : WF_vars(LoopStep(l))
    /\ SF_vars(Tick)

\* ---------------------------------------------------------------- rate = 0
\* A Throttle constructed with rate 0 (timedelta(0), which is false) or with Rate.
RateInit ==
    (\E r \in {0, Rate} : ThrottleInit(r)) /\ NoDict /\ NoCommand /\ NoBinding /\ NoRegistry /\ NoClient

RateSpec ==
    /\ RateInit /\ [][Next]_vars
    /\ \A l \in Loops : WF_vars(LoopStep(l))
    /\ SF_vars(Tick)

\* C11: with rate = 0 the run loop, whenever it is executing, reaches a suspension
\* point or its end again (it yields to the event loop; it does not spin).
C11_ZeroRateKeepsYielding == (rate = 0 /\ ~NoneBusy) ~> NoneBusy

\* ---------------------------------------------------------------- DependencyDict
\* Dictionary keys, and the sets a caller passes as before/after/requires/
\* required_by: nothing, or one key (its own, another present one, or a missing one).
Keys == {"a", "b", "c"}
Refs == {{}} \cup {{k} : k \in Keys}

Priorities == {0, 1}

\* the arguments of DependencyItem(); a caller names dependencies in one of them
Args ==
    {a \in [before : Refs, after : Refs, required_by : Refs, requires : Refs,
            priority : Priorities] :
        Cardinality({f \in {"before", "after", "required_by", "requires"} :
                        (CASE f = "before" -> a.before [] f = "after" -> a.after
                           [] f = "required_by" -> a.required_by
                           [] f = "requires" -> a.requires) # {}}) <= 1}
\* "a" and "b" are added with any of these arguments, "c" only without dependencies
\* (the others may still name it)
ArgsOf(k) ==
    IF k \in {"a", "b"} THEN Args
    ELSE {a \in Args : a.before = {} /\ a.after = {} /\ a.required_by = {} /\ a.requires = {}}
NoArgs == [before |-> {}, after |-> {}, required_by |-> {}, requires |-> {}, priority |-> -1]

\* DependencyItem.__new__: `requires = set(required_by)`, and the namedtuple's fields
\* are (before, after, requires, required_by, ...) while the values are passed as
\* (before, after, required_by, requires, ...).
DependencyItem(before, after, required_by, requires, priority) ==
    LET requires_ == required_by
    IN  [before |-> before, after |-> after, requires |-> required_by,
         required_by |-> requires_, priority |-> priority]

\* (attr, required, before) of _ITEM_ATTRINFO, in its order
ITEM_ATTRINFO ==
    << [attr |-> "before", required |-> FALSE, before |-> TRUE],
       [attr |-> "required_by", required |-> TRUE, before |-> TRUE],
       [attr |-> "after", required |-> FALSE, before |-> FALSE],
       [attr |-> "requires", required |-> TRUE, before |-> FALSE] >>

\* getattr(v, attr)
GetAttr(v, attr) ==
    CASE attr = "before" -> v.before
      [] attr = "required_by" -> v.required_by
      [] attr = "after" -> v.after
      [] attr = "requires" -> v.requires

DataKeys(d) == [i \in 1..Len(d) |-> d[i].key]
KeySet(d) == Range(DataKeys(d))
Pos(d, k) == CHOOSE i \in 1..Len(d) : d[i].key = k
\* self._data[key] = value: a new key goes to the end, a known key keeps its place
Stored(d, k, v) ==
    IF k \in KeySet(d)
    THEN [i \in 1..Len(d) |-> IF d[i].key = k THEN [key |-> k, value |-> v] ELSE d[i]]
    ELSE Append(d, [key |-> k, value |-> v])
\* del self._data[key]
Without(d, k) == SelectSeq(d, LAMBDA e : e.key # k)

\* nodes of `pending`: the keys, and one _DependencyPriority per priority group
KeyNode(k) == [key |-> k, group |-> -1]
GroupNode(p) == [key |-> "", group |-> p]
\* `isinstance(k, _DependencyPriority)`
IsGroup(n) == n.group # -1

\* "Validate everything": what the check of d[i] against ITEM_ATTRINFO[j] raises
Check(d, i, j) ==
    LET items == GetAttr(d[i].value, ITEM_ATTRINFO[j].attr)
    IN  IF d[i].key \in items THEN "itself"
        ELSE IF ITEM_ATTRINFO[j].required /\ items \ KeySet(d) # {} THEN "missing"
        ELSE "none"
\* the first error in the order of the two nested loops
FirstError(d) ==
    LET n == Len(ITEM_ATTRINFO)
        at_(m) == Check(d, ((m - 1) \div n) + 1, ((m - 1) % n) + 1)
        bad == {m \in 1..(Len(d) * n) : at_(m) # "none"}
    IN  IF bad = {} THEN "none" ELSE at_(CHOOSE m \in bad : \A o \in bad : m <= o)

\* the keys `k` waits for once "set up pending" is done
Waits(d, k) ==
    LET v == d[Pos(d, k)].value
    IN  (v.after \cap KeySet(d)) \cup v.requires
        \cup {o \in KeySet(d) : k \in d[Pos(d, o)].value.before}
        \cup {o \in KeySet(d) : k \in d[Pos(d, o)].value.required_by}

\* sorted(priorities.keys()), or nothing when grouping is off or there is one group
Groups(d, gp) ==
    LET present == {d[i].value.priority : i \in 1..Len(d)}
    IN  IF gp /\ Cardinality(present) > 1
        THEN SelectSeq([i \in 1..Cardinality(Priorities) |-> i - 1], LAMBDA p : p \in present)
        ELSE <<>>

\* members of a group that wait for nothing
MemberWaitsForNothing(prev) == {}

\* `pending[member].add(prev)`
MemberWaits(prev) == {prev}

\* pending, as nodes in the OrderedDict's order and the set each one waits for
PendingNodes(d, gp) ==
    [i \in 1..Len(d) |-> KeyNode(d[i].key)]
        \o [i \in 1..Len(Groups(d, gp)) |-> GroupNode(Groups(d, gp)[i])]
Pending(d, gp) ==
    LET groups == Groups(d, gp)
        index(p) == CHOOSE i \in 1..Len(groups) : groups[i] = p
    IN  [n \in Range(PendingNodes(d, gp)) |->
            IF IsGroup(n)
            THEN {KeyNode(d[i].key) : i \in {j \in 1..Len(d) : d[j].value.priority = n.group}}
            ELSE {KeyNode(o) : o \in Waits(d, n.key)}
                 \cup (IF groups # <<>> /\ index(d[Pos(d, n.key)].value.priority) > 1
                       THEN MemberWaits(GroupNode(
                                groups[index(d[Pos(d, n.key)].value.priority) - 1]))
                       ELSE {})]

\* every remaining node counts as ready
ReadyAll(nodes, deps) == nodes

\* "Find items with no (remaining) dependencies", self.sortkey being False
Ready(nodes, deps) == SelectSeq(nodes, LAMBDA n : deps[n] = {})

\* a failed pass that hands back what was solved so far, the rest behind it
PartialOrder(nodes, solution) == [ok |-> TRUE, order |-> solution \o nodes]

\* `raise RuntimeError("Could not solve dependencies ...")`
CouldNotSolve(nodes, solution) == [ok |-> FALSE, order |-> <<>>]

\* "Actually solve": the passes of `while pending`
RECURSIVE Passes(_, _, _)
Passes(nodes, deps, solution) ==
    IF nodes = <<>> THEN [ok |-> TRUE, order |-> solution]
    ELSE LET ready == Ready(nodes, deps)
         IN  IF ready = <<>> THEN CouldNotSolve(nodes, solution)
             ELSE Passes(SelectSeq(nodes, LAMBDA n : n \notin Range(ready)),
                         [n \in DOMAIN deps |-> deps[n] \ Range(ready)],
                         solution \o ready)

\* solve(): the error it raises ("none": it returns) and self._data afterwards
Solve(d, gp) ==
    IF d = <<>> THEN [error |-> "none", data |-> d]
    ELSE IF FirstError(d) # "none" THEN [error |-> FirstError(d), data |-> d]
    ELSE LET r == Passes(PendingNodes(d, gp), Pending(d, gp), <<>>)
             kept == SelectSeq(r.order, LAMBDA n : ~IsGroup(n))
         IN  IF r.ok
             THEN [error |-> "none", data |-> [i \in 1..Len(kept) |-> d[Pos(d, kept[i].key)]]]
             ELSE [error |-> "unsolved", data |-> d]

\* an add() that leaves self._solved as it is
StaysSolved(s) == s

\* add() / __setitem__: `self._solved = False`
Invalidated(s) == FALSE

\* add(key, **a) of a key that is not there; a value is replaced through SetItem,
\* which ends in add(key) as well
DictAdd(k, a) ==
    /\ k \notin KeySet(data)
    /\ data' = Stored(data, k, DependencyItem(a.before, a.after, a.required_by,
                                                a.requires, a.priority))
    /\ solved' = Invalidated(solved)
    /\ asked' = [asked EXCEPT ![k] = a]
    /\ outcome' = "none"
    /\ UNCHANGED <<get_priority, throttle_vars, cmd_vars, bind_vars, reg_vars, client_vars>>

\* self[key] = None: a false value becomes add(key)
SetItem(k) ==
    /\ data' = Stored(data, k, DependencyItem({}, {}, {}, {}, 0))
    /\ solved' = Invalidated(solved)
    /\ asked' = [asked EXCEPT ![k] = [NoArgs EXCEPT !.priority = 0]]
    /\ outcome' = "none"
    /\ UNCHANGED <<get_priority, throttle_vars, cmd_vars, bind_vars, reg_vars, client_vars>>

\* del self[key], for a key that is there
DelItem(k) ==
    /\ k \in KeySet(data)
    /\ data' = Without(data, k)
    /\ solved' = (Len(data') = 0)
    /\ asked' = [asked EXCEPT ![k] = NoArgs]
    /\ outcome' = "none"
    /\ UNCHANGED <<get_priority, throttle_vars, cmd_vars, bind_vars, reg_vars, client_vars>>

\* pop(key, default): MutableMapping.pop, then `self._solved = not len(self._data)`
Pop(k) ==
    /\ data' = Without(data, k)
    /\ solved' = (Len(data') = 0)
    /\ asked' = [asked EXCEPT ![k] = NoArgs]
    /\ outcome' = "none"
    /\ UNCHANGED <<get_priority, throttle_vars, cmd_vars, bind_vars, reg_vars, client_vars>>

\* clear(): `self._data = {}`, `self._solved = True`
DictClear ==
    /\ data' = <<>>
    /\ solved' = TRUE
    /\ asked' = [k \in Keys |-> NoArgs]
    /\ outcome' = "none"
    /\ UNCHANGED <<get_priority, throttle_vars, cmd_vars, bind_vars, reg_vars, client_vars>>

\* `if not self._solved`
NeedsSolve == ~solved

\* __iter__ / keys / items / values
Iterate ==
    /\ IF NeedsSolve
       THEN LET r == Solve(data, get_priority)
            IN  IF r.error = "none"
                THEN data' = r.data /\ solved' = TRUE /\ outcome' = "order"
                ELSE outcome' = r.error /\ UNCHANGED <<data, solved>>
       ELSE outcome' = "order" /\ UNCHANGED <<data, solved>>
    /\ UNCHANGED <<get_priority, asked, throttle_vars, cmd_vars, bind_vars, reg_vars, client_vars>>

\* popitem(): MutableMapping.popitem takes next(iter(self)), which solves first
PopItem ==
    /\ data # <<>>
    /\ LET r == IF NeedsSolve THEN Solve(data, get_priority)
                ELSE [error |-> "none", data |-> data]
       IN  IF r.error = "none"
           THEN /\ data' = Tail(r.data)
                /\ solved' = (Len(data') = 0)
                /\ asked' = [asked EXCEPT ![Head(r.data).key] = NoArgs]
                /\ outcome' = "none"
           ELSE /\ outcome' = r.error
                /\ UNCHANGED <<data, solved, asked>>
    /\ UNCHANGED <<get_priority, throttle_vars, cmd_vars, bind_vars, reg_vars, client_vars>>

\* DependencyDict(get_priority=...), with no Throttle and no Command in use
DepInit ==
    /\ ThrottleInit(Rate) /\ on_clear = "None"
    /\ NoCommand
    /\ NoBinding
    /\ NoRegistry /\ NoClient
    /\ get_priority \in BOOLEAN
    /\ data = <<>>
    /\ solved = FALSE
    /\ asked = [k \in Keys |-> NoArgs]
    /\ outcome = "none"

DepNext ==
    \/ \E k \in Keys : \E a \in ArgsOf(k) : DictAdd(k, a)
    \/ \E k \in Keys : SetItem(k)
    \/ \E k \in Keys : DelItem(k)
    \/ \E k \in Keys : Pop(k)
    \/ PopItem
    \/ DictClear
    \/ Iterate

DepSpec == DepInit /\ [][DepNext]_vars

\* ---------------------------------------------------------------- DependencyDict claims
\* Pairs <<x, y>>: x has to come before y.
Entry(d, k) == d[Pos(d, k)].value
Pairs(d) == KeySet(d) \X KeySet(d)
\* ... by the before/after sets of the items in the dict (missing keys impose nothing)
BeforeAfterEdges(d) ==
    {e \in Pairs(d) : e[2] \in Entry(d, e[1]).before \/ e[1] \in Entry(d, e[2]).after}
\* ... by the required_by/requires fields of the items in the dict
RequiredEdges(d) ==
    {e \in Pairs(d) : e[2] \in Entry(d, e[1]).required_by \/ e[1] \in Entry(d, e[2]).requires}
StoredEdges(d) == BeforeAfterEdges(d) \cup RequiredEdges(d)
\* ... by the priority groups, when grouping is on and there are two of them
PresentPriorities(d) == {d[i].value.priority : i \in 1..Len(d)}
PriorityEdges(d, gp) ==
    IF gp /\ Cardinality(PresentPriorities(d)) > 1
    THEN {e \in Pairs(d) : Entry(d, e[1]).priority < Entry(d, e[2]).priority}
    ELSE {}
\* ... by the arguments the items were added with
AskedEdges(d) ==
    {e \in Pairs(d) :
        \/ e[2] \in asked[e[1]].before \/ e[1] \in asked[e[2]].after
        \/ e[2] \in asked[e[1]].required_by \/ e[1] \in asked[e[2]].requires}
AskedRequiredEdges(d) ==
    {e \in Pairs(d) : e[2] \in asked[e[1]].required_by \/ e[1] \in asked[e[2]].requires}

Compose(E, F) == {<<p[1][1], p[2][2]>> : p \in {q \in E \X F : q[1][2] = q[2][1]}}
RECURSIVE PathsUpTo(_, _)
PathsUpTo(E, n) == IF n <= 1 THEN E ELSE E \cup Compose(PathsUpTo(E, n - 1), E)
Acyclic(E) == \A p \in PathsUpTo(E, Cardinality(Keys)) : p[1] # p[2]
Respects(d, E) == \A e \in E : Pos(d, e[1]) < Pos(d, e[2])
EveryKeyOnce(d) ==
    /\ KeySet(d) = {k \in Keys : asked[k] # NoArgs}
    /\ Len(d) = Cardinality(KeySet(d))
OnlyBeforeAfter(d) ==
    \A i \in 1..Len(d) : d[i].value.requires = {} /\ d[i].value.required_by = {}
MissingRefs(d) ==
    UNION {(d[i].value.before \cup d[i].value.after) \ KeySet(d) : i \in 1..Len(d)}

\* C12 (as amended): when the items of the dict carry only before/after constraints and
\* these, together with the order of the priority groups, have no cycle, an iteration
\* returns every key once, each item before its present `before` keys and after its
\* present `after` keys; references to missing keys raise nothing.
C12_BeforeAfterOrder ==
    (/\ outcome # "none"
     /\ OnlyBeforeAfter(data)
     /\ Acyclic(BeforeAfterEdges(data) \cup PriorityEdges(data, get_priority)))
        => /\ outcome = "order"
           /\ EveryKeyOnce(data)
           /\ Respects(data, BeforeAfterEdges(data))

\* An iteration returned an order that a before/after constraint shaped, while
\* another item names a key that is not in the dict.
C12_Witness ==
    /\ outcome = "order"
    /\ OnlyBeforeAfter(data)
    /\ BeforeAfterEdges(data) # {}
    /\ MissingRefs(data) # {}

\* C12 (as claimed): the same whenever the before/after constraints alone have no cycle.
C12_AcyclicBeforeAfterSolves ==
    (/\ outcome # "none"
     /\ OnlyBeforeAfter(data)
     /\ Acyclic(BeforeAfterEdges(data)))
        => /\ outcome = "order"
           /\ EveryKeyOnce(data)
           /\ Respects(data, BeforeAfterEdges(data))

\* C13: when every key named by requires=/required_by= is in the dict and the
\* constraints asked for have no cycle, an iteration succeeds and puts each item after
\* the keys it requires and before the keys it is required by.
C13_RequiredOrderHolds ==
    (/\ outcome # "none"
     /\ \A k \in KeySet(data) : asked[k].requires \cup asked[k].required_by \subseteq KeySet(data)
     /\ Acyclic(AskedEdges(data) \cup PriorityEdges(data, get_priority)))
        => /\ outcome = "order"
           /\ Respects(data, AskedRequiredEdges(data))

\* C14: an iteration of a dict in which an item was added with a requires= or
\* required_by= key that is not there raises.
C14_MissingRequiredRaises ==
    (/\ outcome # "none"
     /\ \E k \in KeySet(data) :
            (asked[k].requires \cup asked[k].required_by) \ KeySet(data) # {})
        => outcome # "order"

\* C15: while the constraints of the dict (with the order of the priority groups)
\* contain a cycle, every iteration raises, returns no order, and leaves the items and
\* the unsolved flag as they were.
C15_CycleAlwaysRaises ==
    [][(/\ outcome' # "none"
        /\ ~Acyclic(StoredEdges(data) \cup PriorityEdges(data, get_priority)))
          => /\ outcome' \in {"unsolved", "itself", "missing"}
             /\ data' = data
             /\ solved' = solved
             /\ ~solved']_vars

\* An iteration failed on a cycle made of before/after constraints alone.
C15_Witness ==
    /\ outcome = "unsolved"
    /\ OnlyBeforeAfter(data)
    /\ ~Acyclic(BeforeAfterEdges(data))

\* C16: with grouping on and two priorities present, a returned order has every item
\* of a lower priority before every item of a higher one, and consists of the dict's own
\* keys only (no group node).
C16_GroupsInPriorityOrder ==
    (outcome = "order" /\ get_priority /\ Cardinality(PresentPriorities(data)) > 1)
        => /\ \A i, j \in 1..Len(data) :
                data[i].value.priority < data[j].value.priority => i < j
           /\ \A i \in 1..Len(data) : data[i].key \in Keys
           /\ EveryKeyOnce(data)

\* Three items in two priority groups were ordered, one group holding a before/after
\* constraint of its own.
C16_Witness ==
    /\ outcome = "order"
    /\ get_priority
    /\ Len(data) = Cardinality(Keys)
    /\ Cardinality(PresentPriorities(data)) > 1
    /\ BeforeAfterEdges(data) # {}

\* C17: whenever the dict is marked solved, its stored order holds exactly the current
\* keys, every required key is there, and every constraint of its items and of the
\* priority groups is respected.
C17_SolvedMeansValid ==
    solved =>
        /\ EveryKeyOnce(data)
        /\ \A i \in 1..Len(data) :
                data[i].value.requires \cup data[i].value.required_by \subseteq KeySet(data)
        /\ Respects(data, StoredEdges(data) \cup PriorityEdges(data, get_priority))

\* A dict with a constraint between two of its keys is marked solved.
C17_Witness ==
    /\ solved
    /\ Len(data) >= 2
    /\ StoredEdges(data) # {}

\* ---------------------------------------------------------------- Command
\* A binding as Command.__call__ sees it: a handler whose parameters are all
\* required, `arity` of them, none of them taking the rest of the line, and the
\* /u flag.  What precheck(event) says and what the handler does with the bound
\* arguments depend on the event, and are drawn when the binding is called.
Binding == [arity : 0..MaxArgs, default_error : BOOLEAN]

Implementations == {"package", "module"}

\* What a handler can do: return, or raise UsageError("..."), UsageError(),
\* FinalUsageError("..."), UsageError("...", final=True) or another exception.
\* commands/exc.py, which the module's __call__ uses, has no FinalUsageError class.
Handlers ==
    {"returns", "UsageError", "UsageError()", "final=True", "crash"}
        \cup (IF impl = "package" THEN {"FinalUsageError"} ELSE {})

\* the exception a handler's behaviour stands for, raised in binding i
Raise(h, i) ==
    CASE h = "UsageError"      -> Error("UsageError", FALSE, TRUE, i)
      [] h = "UsageError()"    -> Error("UsageError", FALSE, FALSE, i)
      [] h = "FinalUsageError" -> Error("FinalUsageError", TRUE, TRUE, i)
      [] h = "final=True"      -> Error("UsageError", TRUE, TRUE, i)
      [] OTHER                 -> Error("Exception", FALSE, TRUE, i)

\* a mutant of Binds: the argument count is not checked
BindsAnything(b, n) == TRUE

\* Binding.bind accepts n arguments: not more than there are parameters
\* ("Incorrect number of arguments."), and none of the required ones missing
\* (Parameter.validate, "... must be specified").
Binds(b, n) == n = b.arity

IsUsageError(e) == e.kind \in {"UsageError", "PrecheckError", "FinalUsageError"}

\* binding(event, ...): precheck, bind, then `event.binding = self` and the handler
BindingCall(b, i, n, pre, h) ==
    IF ~pre THEN [returned |-> FALSE, invoked |-> FALSE,
                  error |-> Error("PrecheckError", FALSE, TRUE, i)]
    ELSE IF ~Binds(b, n)
         THEN [returned |-> FALSE, invoked |-> FALSE,
               error |-> Error("UsageError", FALSE, TRUE, i)]
    ELSE IF h = "returns" THEN [returned |-> TRUE, invoked |-> TRUE, error |-> NoError]
    ELSE [returned |-> FALSE, invoked |-> TRUE, error |-> Raise(h, i)]

\* a mutant of Propagates: every exception is caught
PropagatesNothing(e) == FALSE

\* the exception leaves __call__: it is not caught, or it is caught and re-raised
Propagates(e) ==
    IF impl = "package"
    THEN ~IsUsageError(e) \/ e.kind = "FinalUsageError"
    ELSE ~IsUsageError(e) \/ e.final

\* `except PrecheckError: pass` / `if isinstance(ex, PrecheckError): continue`
Skipped(e) == e.kind = "PrecheckError"

\* a mutant of Retains: the latest error always replaces the retained one
RetainsLatest(e, b) == TRUE

\* `if error is None or binding.default_error:`
Retains(e, b) == e = NoError \/ b.default_error

Returned(i) == [how |-> "returned", by |-> i, error |-> NoError]
Raised(e, i) == [how |-> "raised", by |-> i, error |-> e]

\* a mutant of BindingSet: event.binding is left as it is
BindingKept(old, i) == old

\* `event.binding = self`
BindingSet(old, i) == i

\* __call__ is entered with a new Event, n arguments in event.arglist
Call(n) ==
    /\ at = 0
    /\ arglist' = n
    /\ event_binding' = 0
    /\ tried' = <<>>
    /\ error' = NoError
    /\ IF bindings = <<>>
       THEN /\ result' = Raised(Error("ValueError", FALSE, TRUE, 0), 0)
            /\ at' = 0
       ELSE /\ result' = NoResult
            /\ at' = 1
    /\ UNCHANGED <<impl, bindings, usage, throttle_vars, dep_vars, bind_vars, reg_vars, client_vars>>

\* one round of `for binding in self.bindings:`
TryBinding(pre, h) ==
    /\ at \in 1..Len(bindings)
    /\ LET b == bindings[at]
           o == BindingCall(b, at, arglist, pre, h)
       IN  /\ tried' = Append(tried, [binding |-> at, returned |-> o.returned,
                                      invoked |-> o.invoked, error |-> o.error])
           /\ event_binding' = IF o.invoked THEN BindingSet(event_binding, at)
                                ELSE event_binding
           /\ IF o.returned
              THEN result' = Returned(at) /\ at' = 0 /\ UNCHANGED error
              ELSE IF Propagates(o.error)
              THEN result' = Raised(o.error, at) /\ at' = 0 /\ UNCHANGED error
              ELSE IF Skipped(o.error)
              THEN at' = at + 1 /\ UNCHANGED <<error, result>>
              ELSE /\ error' = IF Retains(error, b) THEN o.error ELSE error
                   /\ at' = at + 1
                   /\ UNCHANGED result
    /\ UNCHANGED <<impl, bindings, usage, arglist, throttle_vars, dep_vars, bind_vars, reg_vars, client_vars>>

\* after the loop: every binding failed
Finish ==
    /\ at = Len(bindings) + 1
    /\ at' = 0
    /\ result' =
         IF usage THEN Raised(Error("UsageError", FALSE, TRUE, 0), 0)
         ELSE IF error = NoError THEN Raised(Error("AttributeError", FALSE, TRUE, 0), 0)
         ELSE IF ~error.message THEN Raised(Error("UsageError", FALSE, TRUE, 0), error.by)
         ELSE Raised(error, error.by)
    /\ UNCHANGED <<impl, bindings, usage, arglist, tried, error, event_binding,
                   throttle_vars, dep_vars, bind_vars, reg_vars, client_vars>>

\* Command(bindings=..., usage=...), with no Throttle and no DependencyDict in use
CmdInit ==
    /\ ThrottleInit(Rate) /\ on_clear = "None"
    /\ NoDict
    /\ NoBinding
    /\ NoRegistry /\ NoClient
    /\ impl \in Implementations
    /\ bindings \in UNION {[1..n -> Binding] : n \in 0..MaxBindings}
    /\ usage \in BOOLEAN
    /\ arglist = 0
    /\ at = 0
    /\ tried = <<>>
    /\ error = NoError
    /\ result = NoResult
    /\ event_binding = 0

CmdNext ==
    \/ \E n \in 0..MaxArgs : Call(n)
    \/ \E pre \in BOOLEAN : \E h \in Handlers : TryBinding(pre, h)
    \/ Finish

CmdSpec == CmdInit /\ [][CmdNext]_vars

\* ---------------------------------------------------------------- Command: claims
\* __call__ has ended
Ended == result.how # "none"

\* the loop ran over every binding without leaving __call__
AllFailed == Len(bindings) > 0 /\ Len(tried) = Len(bindings) /\ ~tried[Len(tried)].returned
                 /\ ~Propagates(tried[Len(tried)].error)

\* the bindings of the example: B1 requires two arguments, B2 requires one
TwoThenOne ==
    /\ Len(bindings) = 2
    /\ bindings[1].arity = 2
    /\ bindings[2].arity = 1

\* C18: the bindings are tried in declared order, none skipped; a call that returns
\* returns what the last binding tried returned, every binding before it having
\* failed, and nothing is tried after it.  With [B1 requiring 2 arguments,
\* B2 requiring 1] and one argument, B1 fails and its error never ends the call:
\* B2 is tried, and if it returns, the result is B2's.
C18_FirstBindingThatReturns ==
    /\ \A j \in 1..Len(tried) : tried[j].binding = j
    /\ \A j \in 1..Len(tried) : tried[j].returned =>
            /\ j = Len(tried)
            /\ result = Returned(j)
            /\ at = 0
    /\ result.how = "returned" =>
            /\ Len(tried) > 0
            /\ tried[Len(tried)].returned
            /\ result.by = Len(tried)
    /\ (TwoThenOne /\ arglist = 1 /\ Len(tried) > 0) =>
            /\ ~tried[1].returned
            /\ Ended => Len(tried) = 2
            /\ (Len(tried) = 2 /\ tried[2].returned) => result = Returned(2)

\* The example: one argument, B1 (two arguments) failed, B2 (one) returned.
C18_Witness ==
    /\ TwoThenOne
    /\ arglist = 1
    /\ Len(tried) = 2
    /\ tried[1].error.kind = "UsageError"
    /\ result = Returned(2)

\* C19: a binding that raises FinalUsageError, or a UsageError whose final flag is
\* set, is the last binding tried, and the call ends raising that very error.
C19_FinalErrorPropagates ==
    \A j \in 1..Len(tried) :
        (IsUsageError(tried[j].error) /\ tried[j].error.final) =>
            /\ j = Len(tried)
            /\ result = Raised(tried[j].error, j)

\* C20: when every binding failed and no usage override is set, the retained
\* error is that of the last default_error binding that failed with a non-precheck
\* UsageError, else that of the first binding that failed with one (else none);
\* a PrecheckError is never the retained error.
C20_RetainedError ==
    /\ error.kind # "PrecheckError"
    /\ (AllFailed /\ ~usage) =>
         LET failed  == {j \in 1..Len(tried) : ~Skipped(tried[j].error)}
             flagged == {j \in failed : bindings[j].default_error}
             Last(S)  == CHOOSE j \in S : \A k \in S : k <= j
             First(S) == CHOOSE j \in S : \A k \in S : j <= k
         IN  error = IF flagged # {} THEN tried[Last(flagged)].error
                     ELSE IF failed # {} THEN tried[First(failed)].error
                     ELSE NoError

\* Two bindings failed with usage errors after a precheck failure could have been
\* retained; the second is flagged default_error and its error is the retained one.
C20_Witness ==
    /\ ~usage
    /\ AllFailed
    /\ Len(tried) = 2
    /\ tried[1].error.kind = "UsageError"
    /\ tried[2].error.kind = "UsageError"
    /\ bindings[2].default_error
    /\ error = tried[2].error

\* the loop is over and __call__ has ended after it (Finish ran)
EndedAfterLoop == AllFailed /\ Ended /\ at = 0

\* every binding failed with a PrecheckError or another UsageError that is not final
OnlyNonFinal ==
    \A j \in 1..Len(tried) : IsUsageError(tried[j].error) /\ ~tried[j].error.final

\* C21: whenever every binding failed with a PrecheckError or a non-final
\* UsageError, __call__ raises a UsageError: the usage override if set, else the
\* synthesized message if the retained error has no message, else the retained
\* error; never an exception of another type.
C21_AllFailedRaisesUsageError ==
    (EndedAfterLoop /\ OnlyNonFinal) =>
        /\ result.how = "raised"
        /\ IsUsageError(result.error)
        /\ usage => result = Raised(Error("UsageError", FALSE, TRUE, 0), 0)
        /\ (~usage /\ error # NoError /\ error.message) => result = Raised(error, error.by)
        /\ (~usage /\ error # NoError /\ ~error.message) =>
                result = Raised(Error("UsageError", FALSE, TRUE, 0), error.by)

\* ---------------------------------------------------------------- Binding: text
\* Text is a sequence of characters.  The alphabet has a letter in both cases, two
\* digits and the blank: enough for words that differ in case only, for numbers
\* below, inside and above a range, and for runs of whitespace.
Chars == {"a", "A", "0", "1", " "}
Texts == UNION {[1..n -> Chars] : n \in 0..MaxText}

IsSpace(c) == c = " "
IsDigit(c) == c \in {"0", "1"}

\* str.lower()
LowerChar(c) == IF c = "A" THEN "a" ELSE c
Lower(s) == [i \in 1..Len(s) |-> LowerChar(s[i])]

\* the end of the run of non-blanks that starts at position i
RECURSIVE WordEnd(_, _)
WordEnd(t, i) == IF i < Len(t) /\ ~IsSpace(t[i + 1]) THEN WordEnd(t, i + 1) ELSE i

\* ArgumentList(text): one Argument per match of \S+, each keeping the text and
\* the (0-based) position it starts at
RECURSIVE ArgumentsFrom(_, _)
ArgumentsFrom(t, i) ==
    IF i > Len(t) THEN <<>>
    ELSE IF IsSpace(t[i]) THEN ArgumentsFrom(t, i + 1)
    ELSE <<[s |-> SubSeq(t, i, WordEnd(t, i)), start |-> i - 1]>>
             \o ArgumentsFrom(t, WordEnd(t, i) + 1)

ArgumentList(t) == ArgumentsFrom(t, 1)

\* Argument.eol: self._text[self._start:]
Eol(t, arg) == SubSeq(t, arg.start + 1, Len(t))

\* ---------------------------------------------------------------- Binding: values
\* An optional number or string is None (<<>>) or <<n>>.
\* what a parameter hands to the handler
StrValue(s) == [kind |-> "str", s |-> s, n |-> 0]
NumValue(c, n) == [kind |-> c, s |-> <<>>, n |-> n]
NoneValue == [kind |-> "None", s |-> <<>>, n |-> 0]
ListValue(vs) == [kind |-> "list", items |-> vs]

\* the number a string of digits denotes
RECURSIVE Digits(_)
Digits(s) ==
    IF s = <<>> THEN 0
    ELSE 10 * Digits(SubSeq(s, 1, Len(s) - 1)) + (IF s[Len(s)] = "1" THEN 1 ELSE 0)

\* int(s) / float(s) succeed on the strings of this alphabet that are all digits
Coerces(s) == s # <<>> /\ \A i \in 1..Len(s) : IsDigit(s[i])

\* str.partition('..'): the text before the first ".." and the text after it
RECURSIVE DotsAt(_, _)
DotsAt(s, i) ==
    IF i >= Len(s) THEN 0
    ELSE IF s[i] = "." /\ s[i + 1] = "." THEN i
    ELSE DotsAt(s, i + 1)

Partition(s) ==
    LET d == DotsAt(s, 1)
    IN  IF d = 0 THEN <<s, <<>>>>
        ELSE <<SubSeq(s, 1, d - 1), SubSeq(s, d + 2, Len(s))>>

\* re.compile('[/|]').split: the pieces between the separators, empty ones included
RECURSIVE Split(_)
Split(s) ==
    LET seps == {i \in 1..Len(s) : s[i] \in {"/", "|"}}
    IN  IF seps = {} THEN {s}
        ELSE LET i == CHOOSE j \in seps : \A k \in seps : j <= k
             IN  {SubSeq(s, 1, i - 1)} \cup Split(SubSeq(s, i + 1, Len(s)))

\* ---------------------------------------------------------------- Binding: compile
\* A chunk of the parameter string, by the alternative of _paramstring_re it is
\* written for:
\*   var     <[count]arg[:type[:options]]>
\*   const   [count][arg=]options
\*   option  /letter[=kwarg]
\* count is "", "?", "*" or "+"; type "" is absent; options is a character
\* sequence, <<>> absent; kwarg is a name of one letter, "" absent.
Var(count, arg, type, options) ==
    [form |-> "var", count |-> count, arg |-> arg, type |-> type, options |-> options,
     letter |-> "", kwarg |-> ""]
Const(count, arg, options) ==
    [form |-> "const", count |-> count, arg |-> arg, type |-> "", options |-> options,
     letter |-> "", kwarg |-> ""]
Option(letter, kwarg) ==
    [form |-> "option", count |-> "", arg |-> "", type |-> "", options |-> <<>>,
     letter |-> letter, kwarg |-> kwarg]

VarChunks ==
    { Var("", "a", "", <<>>), Var("", "b", "", <<>>),
      Var("?", "a", "", <<>>), Var("*", "a", "", <<>>), Var("?", "b", "", <<>>),
      Var("", "b", "line", <<>>),
      Var("", "a", "int", <<"1", ".", ".", "1", "0">>),
      Var("", "a", "int", <<>>),
      Var("", "a", "int", <<".", ".", "1", "0">>),
      Var("", "a", "int", <<"1", ".", ".">>),
      Var("", "a", "float", <<"1", ".", ".", "1", "0">>) }

ConstChunks ==
    { Const("", "a", <<"a", "|", "a", "a">>),
      Const("?", "a", <<"a", "|", "a", "a">>),
      Const("", "", <<"a", "a">>) }

OptionChunks ==
    { Option("u", ""), Option("b", ""), Option("B", ""), Option("b", "k"), Option("", "") }

Chunks == VarChunks \cup ConstChunks \cup OptionChunks

\* The parameter strings: every chunk alone, every chunk before and after a plain
\* required variable, before a variable that takes the rest of the line, and an
\* option chunk between two variables.
Paramstrings ==
    {<<>>} \cup {<<c>> : c \in Chunks}
        \cup {<<c, d>> : c \in Chunks, d \in {Var("", "b", "", <<>>), Var("", "b", "line", <<>>)}}
        \cup {<<Var("", "a", "", <<>>), d>> : d \in Chunks}
        \cup {<<Var("", "a", "", <<>>), o, Var("", "b", "", <<>>)>> : o \in OptionChunks}

\* The bound function is `def handler(event, a=None, b=None, **kwargs)`: it has no
\* *args, and with **kwargs every argument name is accepted.
Signature == [parameters |-> {"event", "a", "b", "kwargs"}, kwargs_var |-> "kwargs"]

FIRST_ARG == "FIRST_ARG"
LAST_ARG == "LAST_ARG"
LIST_NONE == 0
LIST_NORMAL == 1

\* One match of _paramstring_re.  The `options` group of the first alternative,
\* (?:/(?P<options>)), is empty and must be followed by whitespace or the end, so
\* that alternative matches the chunk "/" only; "/u", "/b", "/b=k" match the
\* alternative of a constant without parentheses, "=" splitting off its argument.
Match(c) ==
    CASE c.form = "option" /\ c.letter = "" ->
            [options |-> TRUE, paramtype |-> "option", count |-> "", arg |-> "",
             type |-> "", data |-> <<>>]
      [] c.form = "option" /\ c.kwarg # "" ->
            [options |-> FALSE, paramtype |-> "const", count |-> "",
             arg |-> (CASE c.letter = "b" -> "/b" [] c.letter = "B" -> "/B" [] OTHER -> "/u"),
             type |-> "", data |-> <<c.kwarg>>]
      [] c.form = "option" ->
            [options |-> FALSE, paramtype |-> "const", count |-> "", arg |-> "",
             type |-> "", data |-> <<"/", c.letter>>]
      [] OTHER ->
            [options |-> FALSE, paramtype |-> c.form, count |-> c.count, arg |-> c.arg,
             type |-> c.type, data |-> c.options]

ParseError(message) == [state |-> "ParseError", message |-> message]
Crash(exception) == [state |-> "raised", message |-> exception]

\* Parameter(self, index, arg, type_, options, name, listmode, required), with the
\* ParamType the type registry has for type_.  A constructor that raises gives the
\* exception instead.
Parameter(index, arg, type, options, listmode, required) ==
    LET base == [index |-> index, arg |-> arg, type |-> type, listmode |-> listmode,
                 required |-> required, eol |-> type = "line", check |-> type = "const",
                 values |-> {}, minvalue |-> None, maxvalue |-> None]
    IN  CASE type = "const" ->
                [state |-> "ok", param |-> [base EXCEPT !.values = Split(Lower(options))]]
          [] type \in {"int", "float"} ->
                IF options = <<>> THEN Crash("AttributeError")
                ELSE LET lo == Partition(options)[1]
                         hi == Partition(options)[2]
                     IN  IF lo # <<>> /\ ~Coerces(lo)
                         THEN ParseError("Unable to coerce minval")
                         ELSE IF hi # <<>> /\ ~Coerces(hi)
                         THEN ParseError("Unable to coerce maxval")
                         ELSE IF lo # <<>> /\ hi # <<>> /\ Digits(lo) > Digits(hi)
                         THEN ParseError("minval > maxval")
                         ELSE [state |-> "ok",
                               param |-> [base EXCEPT
                                    !.minvalue = IF lo = <<>> THEN None ELSE <<Digits(lo)>>,
                                    !.maxvalue = IF hi = <<>> THEN None ELSE <<Digits(hi)>>]]
          [] OTHER -> [state |-> "ok", param |-> base]

\* the Binding under construction, before the first chunk
NewBinding ==
    [state |-> "ok", params |-> <<>>, default_error |-> FALSE, binding_arg |-> None,
     arg_names |-> {}, eol |-> FALSE, was_required |-> TRUE]

\* the letters of an option chunk, from letter ix on
RECURSIVE ApplyOptions(_, _, _)
ApplyOptions(b, options, ix) ==
    IF ix > Len(options) THEN b
    ELSE IF options[ix] = "u"
         THEN ApplyOptions([b EXCEPT !.default_error = TRUE], options, ix + 1)
    ELSE IF options[ix] \in {"b", "B"}
         THEN IF ix + 1 <= Len(options) /\ options[ix + 1] = "="
              THEN IF ix + 2 > Len(options) THEN ParseError("= must specify a kwarg")
                   ELSE ApplyOptions([b EXCEPT !.binding_arg = <<options[ix + 2]>>],
                                     options, ix + 1)
              ELSE ApplyOptions([b EXCEPT !.binding_arg =
                                     <<IF options[ix] = "b" THEN FIRST_ARG ELSE LAST_ARG>>],
                                options, ix + 1)
    ELSE ParseError("Unrecognized option")

\* `was_required` after a parameter was added: the code never assigns it again
WasRequired(b, required) == b.was_required

\* one round of `for index, match in enumerate(...finditer(paramstring))`
Chunk(b, c, index) ==
    LET m == Match(c)
        listmode == IF m.count \in {"+", "*"} THEN LIST_NORMAL ELSE LIST_NONE
        required == m.count \notin {"?", "*"}
        type == IF m.paramtype = "const" THEN "const"
                ELSE IF m.type = "" THEN "str" ELSE m.type
        p == Parameter(index, m.arg, type, m.data, listmode, required)
    IN  IF m.options THEN ApplyOptions(b, m.data, 1)
        ELSE IF b.eol
             THEN ParseError("Previous parameter consumes remainder of line")
        \* `required = True; if required and not was_required:`
        ELSE IF ~b.was_required
             THEN ParseError("Cannot have mandatory arguments after optional ones.")
        ELSE IF m.arg # "" /\ m.arg \in b.arg_names
             THEN ParseError("Duplicate parameter name")
        ELSE IF m.arg # "" /\ m.arg = Signature.kwargs_var
             THEN ParseError("Cannot directly reference a function's kwargs argument.")
        ELSE IF p.state # "ok" THEN p
        ELSE [b EXCEPT !.params = Append(@, p.param),
                       !.arg_names = IF m.arg # "" THEN @ \cup {m.arg} ELSE @,
                       !.eol = listmode # LIST_NONE \/ p.param.eol,
                       !.was_required = WasRequired(b, required)]

\* Binding.__init__ from chunk i on
RECURSIVE Chunked(_, _, _)
Chunked(b, ps, i) ==
    IF b.state # "ok" \/ i > Len(ps) THEN b
    ELSE Chunked(Chunk(b, ps[i], i - 1), ps, i + 1)

\* Binding(handler, paramstring)
Compile ==
    /\ compiled = NotCompiled
    /\ compiled' = Chunked(NewBinding, paramstring, 1)
    /\ UNCHANGED <<paramstring, text, called, throttle_vars, dep_vars, cmd_vars, reg_vars, client_vars>>

\* ---------------------------------------------------------------- Binding: call
\* UsageError(message): the format and what is filled in
Message(fmt, values, bounds) == [fmt |-> fmt, values |-> values, bounds |-> bounds]
Usage(message) == [how |-> "UsageError", message |-> message]
Fine == [how |-> "ok"]

\* the Binding instance, as an argument of the handler
Self == [kind |-> "Binding", s |-> <<>>, n |-> 0]

\* Parameter.args: the positions (1-based) of the arguments the parameter is
\* responsible for
ParamArgs(p, alist) ==
    IF p.listmode # LIST_NONE THEN (p.index + 1)..Len(alist)
    ELSE (p.index + 1)..Min(p.index + 1, Len(alist))

\* a mutant of Given: the parser is given the word whatever its type
GivenWord(p, t, arg) == arg.s

\* what the parser is given: `arg.eol if self.parser.eol else arg`
Given(p, t, arg) == IF p.eol THEN Eol(t, arg) ELSE arg.s

\* ConstParamType.validate
ConstValidate(p, value) ==
    IF value \notin p.values
    THEN Usage(Message(IF Cardinality(p.values) = 1 THEN "must equal" ELSE "must be one of",
                       p.values, <<>>))
    ELSE Fine

\* Parameter.validate
Validate(p, t) ==
    LET alist == ArgumentList(t)
        bad == {i \in ParamArgs(p, alist) :
                    ConstValidate(p, Given(p, t, alist[i])).how # "ok"}
    IN  IF Len(alist) <= p.index
        THEN IF p.required
             THEN Usage(Message(IF p.listmode # LIST_NONE
                                THEN "At least one must be specified"
                                ELSE "must be specified", {}, <<>>))
             ELSE Fine
        ELSE IF ~p.check \/ bad = {} THEN Fine
        ELSE ConstValidate(p, Given(p, t, alist[CHOOSE i \in bad : \A j \in bad : i <= j]))

\* the bound "{0.param.name} must be <= {0.minvalue}" is formatted with
UpperBound(p) == p.minvalue

\* NumberParamType.parse falls off its end once the checks have passed
NumberParsed(p, value) == [how |-> "ok", value |-> NoneValue]

\* NumberParamType.parse
NumberParse(p, value) ==
    IF ~Coerces(value)
    THEN Usage(Message(IF p.type = "int" THEN "must be an integer" ELSE "must be a number",
                       {}, <<>>))
    ELSE IF p.minvalue # None /\ Digits(value) < p.minvalue[1]
         THEN IF p.maxvalue # None
              THEN Usage(Message("must be between", {}, <<p.minvalue, p.maxvalue>>))
              ELSE Usage(Message("must be >=", {}, <<p.minvalue>>))
    ELSE IF p.maxvalue # None /\ Digits(value) > p.maxvalue[1]
         THEN Usage(Message("must be <=", {}, <<UpperBound(p)>>))
    ELSE NumberParsed(p, value)

\* ConstParamType inherits ParamType.parse: `return value`
ConstParse(p, value) == [how |-> "ok", value |-> StrValue(value)]

\* parser.parse(event, value)
Parse(p, value) ==
    CASE p.type = "const" -> ConstParse(p, value)
      [] p.type \in {"int", "float"} -> NumberParse(p, value)
      [] OTHER -> [how |-> "ok", value |-> StrValue(value)]

\* Parameter.bind: the call's kwargs afterwards, or the UsageError
ParamBind(p, t, kwargs) ==
    LET alist == ArgumentList(t)
        mine == ParamArgs(p, alist)
        parsed == [i \in mine |-> Parse(p, Given(p, t, alist[i]))]
        bad == {i \in mine : parsed[i].how # "ok"}
        values == [k \in 1..Cardinality(mine) |-> parsed[p.index + k].value]
    IN  IF bad # {} THEN parsed[CHOOSE i \in bad : \A j \in bad : i <= j]
        ELSE IF p.arg = "" \/ mine = {} THEN [how |-> "ok", kwargs |-> kwargs]
        ELSE IF p.listmode = LIST_NONE
             THEN [how |-> "ok", kwargs |-> (p.arg :> values[1]) @@ kwargs]
        ELSE [how |-> "ok", kwargs |-> (p.arg :> ListValue(values)) @@ kwargs]

\* `for param in self.params: param.validate(event)`, from parameter i on
RECURSIVE ValidateAll(_, _, _)
ValidateAll(params, t, i) ==
    IF i > Len(params) THEN Fine
    ELSE IF Validate(params[i], t).how # "ok" THEN Validate(params[i], t)
    ELSE ValidateAll(params, t, i + 1)

\* `for param in self.params: param.bind(event, args, kwargs)`, from parameter i on
RECURSIVE BindAll(_, _, _, _)
BindAll(params, t, i, kwargs) ==
    IF i > Len(params) THEN [how |-> "ok", kwargs |-> kwargs]
    ELSE LET r == ParamBind(params[i], t, kwargs)
         IN  IF r.how # "ok" THEN r ELSE BindAll(params, t, i + 1, r.kwargs)

\* Binding.bind and the call of the handler with what was bound
BindingBind(b, t) ==
    LET alist == ArgumentList(t)
        params == b.params
        args == IF b.binding_arg \in {<<FIRST_ARG>>, <<LAST_ARG>>} THEN <<Self>> ELSE <<>>
        kwargs == IF b.binding_arg = None \/ args # <<>> THEN <<>>
                  ELSE (b.binding_arg[1] :> Self)
        bound == BindAll(params, t, 1, kwargs)
    IN  IF /\ Len(alist) > Len(params)
           /\ (params = <<>> \/ ~(params[Len(params)].eol
                                    \/ params[Len(params)].listmode # LIST_NONE))
        THEN Usage(Message("Incorrect number of arguments.", {}, <<>>))
        ELSE IF ValidateAll(params, t, 1).how # "ok" THEN ValidateAll(params, t, 1)
        ELSE IF bound.how # "ok" THEN bound
        ELSE [how |-> "called", args |-> args, kwargs |-> bound.kwargs]

\* binding(event) for some event.text of `texts`: one event is handled at a time
CallWith(texts) ==
    /\ compiled.state = "ok"
    /\ called = NotCalled
    /\ \E t \in texts :
            /\ text' = t
            /\ called' = BindingBind(compiled, t)
    /\ UNCHANGED <<paramstring, compiled, throttle_vars, dep_vars, cmd_vars, reg_vars, client_vars>>

CallBinding == CallWith(Texts)

\* the caller is done with the event and with what the call gave
EventDone ==
    /\ called # NotCalled
    /\ text' = <<>>
    /\ called' = NotCalled
    /\ UNCHANGED <<paramstring, compiled, throttle_vars, dep_vars, cmd_vars, reg_vars, client_vars>>

\* a parameter string, with no Throttle, DependencyDict or Command in use
BindInit ==
    /\ ThrottleInit(Rate) /\ on_clear = "None"
    /\ NoDict
    /\ NoCommand
    /\ NoRegistry /\ NoClient
    /\ paramstring \in Paramstrings
    /\ compiled = NotCompiled
    /\ text = <<>>
    /\ called = NotCalled

BindNext ==
    \/ Compile
    \/ CallBinding
    \/ EventDone

BindSpec == BindInit /\ [][BindNext]_vars

\* ---------------------------------------------------------------- Binding: claims
\* chunk c is written as a parameter that may be absent (count marker ? or *)
Optional(c) == c.form \in {"var", "const"} /\ c.count \in {"?", "*"}
Required(c) == c.form \in {"var", "const"} /\ c.count \notin {"?", "*"}

\* a required parameter follows an optional one
RequiredAfterOptional(ps) ==
    \E i, j \in 1..Len(ps) : i < j /\ Optional(ps[i]) /\ Required(ps[j])

\* C22: compiling a parameter string in which a required parameter follows an
\* optional one raises a ParseError, and there is no Binding.
C22_RequiredAfterOptionalRejected ==
    (compiled # NotCompiled /\ RequiredAfterOptional(paramstring)) =>
        compiled.state = "ParseError"

\* the handler was called with no positional extras and these keyword arguments
CalledWith(kwargs) == [how |-> "called", args |-> <<>>, kwargs |-> kwargs]

\* the words of a text, as the claims speak of them: the maximal runs of non-blanks
WordStarts(t) == {i \in 1..Len(t) : ~IsSpace(t[i]) /\ (i = 1 \/ IsSpace(t[i - 1]))}
WordAt(t, i) ==
    LET ends == {j \in i..Len(t) : \A k \in i..j : ~IsSpace(t[k])}
    IN  SubSeq(t, i, CHOOSE j \in ends : \A k \in ends : k <= j)
NthStart(t, n) == CHOOSE i \in WordStarts(t) : Cardinality({j \in WordStarts(t) : j <= i}) = n

\* the parameter string is one chunk, and the call had one token
OneChunk == Len(paramstring) = 1 /\ called # NotCalled /\ Cardinality(WordStarts(text)) = 1
Token == WordAt(text, NthStart(text, 1))

\* the words a constant chunk lists, in lower case
Listed(c) == {Lower(w) : w \in Split(c.options)}

\* C23: a constant parameter name=w1|w2 accepts a token that equals one of the
\* words in any letter case, and the handler receives the word in lower case under
\* `name`; any other token raises a UsageError that lists the allowed words.
C23_ConstMatchesAnyCase ==
    (OneChunk /\ paramstring[1].form = "const" /\ paramstring[1].arg # "") =>
        IF Lower(Token) \in Listed(paramstring[1])
        THEN called = CalledWith(paramstring[1].arg :> StrValue(Lower(Token)))
        ELSE /\ called.how = "UsageError"
             /\ called.message.values = Listed(paramstring[1])

\* the chunk is an int parameter with both bounds given, lo..hi
Bounded(c) ==
    /\ c.form = "var" /\ c.type \in {"int", "float"} /\ c.options # <<>>
    /\ Partition(c.options)[1] # <<>> /\ Partition(c.options)[2] # <<>>
Lo(c) == Digits(Partition(c.options)[1])
Hi(c) == Digits(Partition(c.options)[2])

\* C24: for an integer parameter with bounds min..max, a token above max raises a
\* UsageError whose message states the upper bound max, a token below min one that
\* names both bounds, and a token that is no integer one that says it must be an
\* integer.
C24_NumberErrorsNameBounds ==
    (OneChunk /\ Bounded(paramstring[1]) /\ paramstring[1].type = "int") =>
        LET c == paramstring[1]
        IN  /\ ~Coerces(Token) =>
                 called = Usage(Message("must be an integer", {}, <<>>))
            /\ (Coerces(Token) /\ Digits(Token) < Lo(c)) =>
                 called = Usage(Message("must be between", {}, <<<<Lo(c)>>, <<Hi(c)>>>>))
            /\ (Coerces(Token) /\ Digits(Token) > Hi(c)) =>
                 called = Usage(Message("must be <=", {}, <<<<Hi(c)>>>>))

\* the token is a number the chunk's bounds admit
Admits(c, n) ==
    LET lo == Partition(c.options)[1]
        hi == Partition(c.options)[2]
    IN  (lo = <<>> \/ Digits(lo) <= n) /\ (hi = <<>> \/ n <= Digits(hi))

\* C25: for an int or float parameter, a token that coerces to a number within the
\* inclusive bounds binds, and the handler receives the coerced number under the
\* parameter's argument name.
C25_NumberIsPassedOn ==
    (OneChunk /\ paramstring[1].form = "var" /\ paramstring[1].type \in {"int", "float"}
        /\ Coerces(Token) /\ Admits(paramstring[1], Digits(Token))) =>
        called = CalledWith(paramstring[1].arg :>
                                NumValue(paramstring[1].type, Digits(Token)))

\* the parameter string <a> <b:line>
KeyAndLine == paramstring = <<Var("", "a", "", <<>>), Var("", "b", "line", <<>>)>>

\* C26: <key> <value:line> called with a text of two or more words calls the
\* handler with key = the first word and value = the text from the start of the
\* second word to its end, unchanged; further words are not too many arguments.
C26_LineTakesTheRest ==
    (KeyAndLine /\ called # NotCalled /\ Cardinality(WordStarts(text)) >= 2) =>
        called = CalledWith(("a" :> StrValue(WordAt(text, NthStart(text, 1))))
                         @@ ("b" :> StrValue(SubSeq(text, NthStart(text, 2), Len(text)))))

\* Three words: the value keeps the blank between the second and the third.
C26_Witness ==
    /\ KeyAndLine
    /\ called.how = "called"
    /\ Cardinality(WordStarts(text)) = 3
    /\ \E i \in 1..Len(called.kwargs["b"].s) : IsSpace(called.kwargs["b"].s[i])

\* the parameter string is option chunks among plain required variables
OptionsAmongPlain ==
    /\ \E i \in 1..Len(paramstring) : paramstring[i].form = "option"
    /\ \A i \in 1..Len(paramstring) :
            \/ paramstring[i].form = "option"
            \/ paramstring[i] \in {Var("", "a", "", <<>>), Var("", "b", "", <<>>)}

Plain(ps) == {i \in 1..Len(ps) : ps[i].form # "option"}
Has(ps, letter, kwarg) ==
    \E i \in 1..Len(ps) : ps[i].form = "option" /\ ps[i].letter = letter /\ ps[i].kwarg = kwarg

\* C27: an option chunk sets the binding's policy and nothing else: /u sets
\* default_error, /b, /B and /b=NAME set binding_arg; it creates no Parameter and
\* leaves the token index of the other chunks alone.
C27_OptionsSetPolicyOnly ==
    (compiled # NotCompiled /\ OptionsAmongPlain) =>
        /\ compiled.state = "ok"
        /\ Len(compiled.params) = Cardinality(Plain(paramstring))
        /\ \A k \in 1..Len(compiled.params) :
                /\ compiled.params[k].index = k - 1
                /\ compiled.params[k].type = "str"
        /\ compiled.default_error = Has(paramstring, "u", "")
        /\ Has(paramstring, "b", "") => compiled.binding_arg = <<FIRST_ARG>>
        /\ Has(paramstring, "B", "") => compiled.binding_arg = <<LAST_ARG>>
        /\ Has(paramstring, "b", "k") => compiled.binding_arg = <<"k">>

\* ---------------------------------------------------------------- Registry
\* Pattern(pattern, key=key, before=before): what it matches is the set of
\* (lowercased) names its regular expression fully matches.
Pattern(key, matches, before) == [key |-> key, matches |-> matches, before |-> before]

\* Command(name=name, aliases=literal aliases + patterns); name <<>> is no name
CommandOf(id, name, literals, pats) ==
    [id |-> id, name |-> name, aliases |-> literals, patterns |-> pats]

\* The commands there are to register.  1 and 2 collide on a literal alias that
\* differs in case only; 3, 4 and 5 carry patterns, 4 ordered before 3, and 5
\* replacing 3's pattern key with a pattern that is to come before 4's (a cycle).
Cmds ==
    { CommandOf(1, <<"a">>, {}, <<>>),
      CommandOf(2, <<"A">>, {<<"b">>, <<"B">>}, <<>>),
      CommandOf(3, <<>>, {}, <<Pattern("a", {<<"a">>}, {})>>),
      CommandOf(4, <<>>, {}, <<Pattern("b", {<<"a">>, <<"b">>}, {"a"})>>),
      CommandOf(5, <<>>, {}, <<Pattern("a", {<<"b">>}, {"b"})>>) }

\* the arguments of register(): one command or several
Registrations == UNION {[1..n -> Cmds] : n \in 1..MaxRegister}

\* the names looked up
Searches == {<<"A">>, <<" ", "B">>, <<"0">>}

\* str.strip()
RECURSIVE Strip(_)
Strip(t) ==
    IF t = <<>> THEN t
    ELSE IF IsSpace(t[1]) THEN Strip(Tail(t))
    ELSE IF IsSpace(t[Len(t)]) THEN Strip(SubSeq(t, 1, Len(t) - 1))
    ELSE t

\* the lowercased literal aliases of a command, its name included
LiteralAliases(c) ==
    {Lower(a) : a \in c.aliases} \cup (IF c.name # <<>> THEN {Lower(c.name)} ELSE {})

\* a mutant of Dupes: no alias is found to be taken
NoDupes(new, registered) == {}

\* `aliases.intersection(aliases, self.aliases.keys())`
Dupes(new, registered) == new \cap DOMAIN registered

\* self.patterns.add(key, data=(pattern.pattern, command), **pattern.item_kwargs)
PatternItem(pat, id) ==
    LET item == DependencyItem(pat.before, {}, {}, {}, 0)
    IN  [before |-> item.before, after |-> item.after, requires |-> item.requires,
         required_by |-> item.required_by, priority |-> item.priority,
         data |-> [matches |-> pat.matches, command |-> id]]

RECURSIVE AddPatterns(_, _, _, _)
AddPatterns(d, pats, id, i) ==
    IF i > Len(pats) THEN d
    ELSE AddPatterns(Stored(d, pats[i].key, PatternItem(pats[i], id)), pats, id, i + 1)

\* the registry as register() works on it
Reg(al, pats, solved_, cmds, invalidate, raised) ==
    [aliases |-> al, patterns |-> pats, solved |-> solved_, commands |-> cmds,
     invalidate |-> invalidate, raised |-> raised]

\* one round of `for command in commands:`
RegisterOne(r, c) ==
    IF Dupes(LiteralAliases(c), r.aliases) # {}
    THEN [r EXCEPT !.raised = TRUE]
    ELSE Reg([a \in LiteralAliases(c) |-> c.id] @@ r.aliases,
             AddPatterns(r.patterns, c.patterns, c.id, 1),
             r.solved /\ c.patterns = <<>>,
             r.commands \cup {c.id},
             r.invalidate \/ c.patterns # <<>>,
             FALSE)

\* the loop of register(), from command i on, until one raises
RECURSIVE RegisterFrom(_, _, _)
RegisterFrom(r, cs, i) ==
    IF r.raised \/ i > Len(cs) THEN r
    ELSE RegisterFrom(RegisterOne(r, cs[i]), cs, i + 1)

\* a mutant of CacheCleared: the cache keeps what it holds
CacheKept(cache) == cache

\* invalidate_cache(): pattern_lookup.cache_clear()
CacheCleared(cache) == <<>>

\* register(*commands)
Register(cs) ==
    \E r \in {RegisterFrom(Reg(aliases, patterns, patterns_solved, commands, FALSE, FALSE),
                           cs, 1)} :
        /\ aliases' = r.aliases
        /\ patterns' = r.patterns
        /\ patterns_solved' = r.solved
        /\ commands' = r.commands
        /\ lru' = IF r.invalidate THEN CacheCleared(lru) ELSE lru
        /\ register_raised' = r.raised
        /\ prior' = IF r.raised THEN <<aliases, commands>> ELSE <<<<>>, {}>>
        /\ found' = NotFound
        /\ searched' = <<>>
        /\ missed' = IF r.invalidate
                     THEN {lru[i].search : i \in {j \in 1..Len(lru) : lru[j].result.command = 0}}
                     ELSE missed
        /\ UNCHANGED <<cachesize, throttle_vars, dep_vars, cmd_vars, bind_vars, client_vars>>

Result(how, id) == [how |-> how, command |-> id]

\* _pattern_lookup(search) on the dict d: what it returns or raises, and the dict
\* afterwards (values() solves a dict that is not solved)
PatternLookup(d, solved_, search) ==
    LET r == IF solved_ THEN [error |-> "none", data |-> d] ELSE Solve(d, TRUE)
        hits == {i \in 1..Len(r.data) : search \in r.data[i].value.data.matches}
    IN  IF r.error # "none"
        THEN [result |-> Result("RuntimeError", 0), data |-> d, solved |-> solved_]
        ELSE [result |-> IF hits = {} THEN Result("returned", 0)
                         ELSE Result("returned",
                                     r.data[CHOOSE i \in hits : \A j \in hits : i <= j]
                                        .value.data.command),
              data |-> r.data, solved |-> TRUE]

\* the lru_cache: the position of an entry for `search`, 0 if there is none
Cached(cache, search) ==
    IF \E i \in 1..Len(cache) : cache[i].search = search
    THEN CHOOSE i \in 1..Len(cache) : cache[i].search = search
    ELSE 0

\* the cache after `search` was used: its entry is the latest, the oldest entries
\* give way
Touched(cache, search, res) ==
    LET rest == SelectSeq(cache, LAMBDA e : e.search # search)
        all == <<[search |-> search, result |-> res]>> \o rest
    IN  SubSeq(all, 1, Min(Len(all), cachesize))

\* lookup(search)
Lookup(name) ==
    LET search == Strip(Lower(name))
        at_ == Cached(lru, search)
        r == PatternLookup(patterns, patterns_solved, search)
    IN  /\ searched' = name
        /\ IF search \in DOMAIN aliases
           THEN /\ found' = Result("returned", aliases[search])
                /\ UNCHANGED <<patterns, patterns_solved, lru>>
           ELSE IF cachesize > 0 /\ at_ > 0
           THEN /\ found' = lru[at_].result
                /\ lru' = Touched(lru, search, lru[at_].result)
                /\ UNCHANGED <<patterns, patterns_solved>>
           ELSE /\ found' = r.result
                /\ patterns' = r.data
                /\ patterns_solved' = r.solved
                /\ lru' = IF cachesize > 0 /\ r.result.how = "returned"
                          THEN Touched(lru, search, r.result) ELSE lru
        /\ register_raised' = FALSE
        /\ prior' = <<<<>>, {}>>
        /\ UNCHANGED <<cachesize, aliases, commands, missed,
                       throttle_vars, dep_vars, cmd_vars, bind_vars, client_vars>>

\* Registry(cachesize=...), with no Throttle, DependencyDict, Command or Binding in use
RegInit ==
    /\ ThrottleInit(Rate) /\ on_clear = "None"
    /\ NoDict
    /\ NoCommand
    /\ NoBinding
    /\ \E size \in 0..MaxCache : NewRegistry(size)
    /\ NoClient

RegNext ==
    \/ \E cs \in Registrations : Register(cs)
    \/ \E name \in Searches : Lookup(name)

RegSpec == RegInit /\ [][RegNext]_vars

\* ---------------------------------------------------------- Registry claims
CmdById(id) == CHOOSE c \in Cmds : c.id = id
Normal(name) == Strip(Lower(name))

\* C28: every key of the alias map is a lowercased literal alias (or name) of the one
\* registered Command it maps to, no two registered Commands claim the same literal
\* alias, a step never changes the Command an alias already maps to, and a lookup
\* of a literal alias in any case returns the Command the alias maps to.
C28_AliasesMapToOneCommand ==
    [][ /\ \A a \in DOMAIN aliases' :
            /\ a = Lower(a)
            /\ aliases'[a] \in commands'
            /\ a \in LiteralAliases(CmdById(aliases'[a]))
        /\ \A c, d \in commands' :
            c # d => LiteralAliases(CmdById(c)) \cap LiteralAliases(CmdById(d)) = {}
        /\ \A a \in DOMAIN aliases : a \in DOMAIN aliases' /\ aliases'[a] = aliases[a]
        /\ (found' # NotFound /\ Normal(searched') \in DOMAIN aliases')
            => found' = Result("returned", aliases'[Normal(searched')]) ]_vars

\* a register() of a Command whose name differs only in case from a registered
\* alias was refused, the alias still mapping to the Command that had it
C28_Witness ==
    /\ register_raised
    /\ <<"a">> \in DOMAIN aliases
    /\ aliases[<<"a">>] = 1
    /\ aliases = prior[1]

\* C29: after a register() that raised, the alias map and the command set are what
\* they were when it was called.
C29_FailedRegisterAppliesNothing ==
    register_raised => <<aliases, commands>> = prior

\* the patterns a name matches
Matching(search) == {i \in 1..Len(patterns) : search \in patterns[i].value.data.matches}

\* i is a first match: no other matching pattern is to come before it
FirstMatch(search, i) ==
    /\ i \in Matching(search)
    /\ \A j \in Matching(search) : patterns[i].key \notin patterns[j].value.before

\* C30: a lookup that returns, with the cache on or off, returns the Command of the
\* exact alias if the (lowercased, stripped) name is one, otherwise the Command of
\* a matching Pattern no other matching Pattern is ordered before, and None only
\* if no Pattern matches; whatever the cache holds is such an answer too.
C30_CachedLookupIsUncachedLookup ==
    LET right(search, res) ==
            IF search \in DOMAIN aliases THEN res.command = aliases[search]
            ELSE IF Matching(search) = {} THEN res.command = 0
            ELSE \E i \in Matching(search) :
                    FirstMatch(search, i) /\ res.command = patterns[i].value.data.command
    IN  /\ found.how = "returned" => right(Normal(searched), found)
        /\ \A i \in 1..Len(lru) :
            lru[i].search \notin DOMAIN aliases => right(lru[i].search, lru[i].result)

\* a name the cache held None for is looked up after a Pattern matching it was
\* registered, with the cache on, and the Pattern's Command is returned
C30_Witness ==
    /\ cachesize > 0
    /\ found.how = "returned"
    /\ found.command # 0
    /\ Normal(searched) \in missed
    /\ Normal(searched) \notin DOMAIN aliases

\* ---------------------------------------------------- Throttle: stop and debt
\* C35: once a stop has been requested (self._stop_condition is set), no step of
\* the run loop starts a further queued item.
C35_StopStartsNoFurtherItem ==
    [][stop_condition # None => executed' = executed]_vars

\* item costs, free ones included
DebtCosts == 0..MaxCost

\* items are added one by one, before and while the loop runs
DebtNext ==
    \/ \E c \in DebtCosts : Add(c)
    \/ Run
    \/ Tick
    \/ \E l \in Loops : LoopStep(l)

DebtSpec == Init /\ [][DebtNext]_vars

\* C37: the bucket shrinks only by the cost of the item a step starts; it gets
\* below zero only by starting an item that costs more than burst from the full
\* bucket (so free >= min(0, burst - cost)), and no item is started while the bucket
\* is below zero.
C37_DebtOnlyFromFullBucket ==
    [][ /\ free' < free =>
            /\ executed' # executed
            /\ \E l \in Loops :
                /\ pc'[l] = "exec"
                /\ free' = free - Scaled(cur'[l].cost)
                /\ free' >= Min(0, Scaled(Burst - cur'[l].cost))
                /\ free' < 0 => (free = Scaled(Burst) /\ cur'[l].cost > Burst)
        /\ executed' # executed => free >= 0 ]_vars

\* an oversized item was executed from the full bucket, and the loop sleeps on the
\* item behind it, a free one, while the bucket is below zero
C37_Witness ==
    /\ free < 0
    /\ executed # <<>>
    /\ queue # <<>>
    /\ queue[1].cost = 0
    /\ \E l \in Loops : pc[l] = "sleep_cap"

\* ------------------------------------------------- Binding.bind: its passes
Step(step, param, ok) == [step |-> step, param |-> param, ok |-> ok]

\* a mutant of BindPasses: each parameter is validated and bound before the next one
BindPassesInterleaved(n) ==
    [k \in 1..(2 * n) |-> IF k % 2 = 1 THEN <<"validate", (k + 1) \div 2>>
                          ELSE <<"bind", k \div 2>>]

\* the two loops of Binding.bind over self.params: validate() of every parameter,
\* then bind() of every parameter
BindPasses(n) ==
    [k \in 1..n |-> <<"validate", k>>] \o [k \in 1..n |-> <<"bind", k>>]

\* what one pass over one parameter does: validate() runs, or bind() has the
\* parser parse the parameter's arguments (no call of parse() without arguments)
PassStep(b, t, pass) ==
    LET param == b.params[pass[2]]
    IN  IF pass[1] = "validate"
        THEN <<Step("validate", pass[2], Validate(param, t).how = "ok")>>
        ELSE IF ParamArgs(param, ArgumentList(t)) = {} THEN <<>>
        ELSE <<Step("parse", pass[2], ParamBind(param, t, <<>>).how = "ok")>>

\* the passes from the k-th on, up to the first that raises
RECURSIVE PassSteps(_, _, _, _)
PassSteps(b, t, passes, k) ==
    IF k > Len(passes) THEN <<Step("call", 0, TRUE)>>
    ELSE LET here == PassStep(b, t, passes[k])
         IN  IF here # <<>> /\ ~here[1].ok THEN here
             ELSE here \o PassSteps(b, t, passes, k + 1)

\* binding(event): the steps Binding.bind takes, in order, up to the one that
\* raises, and the call of the handler if none does
BindSteps(b, t, pre) ==
    LET alist == ArgumentList(t)
        params == b.params
        toomany == /\ Len(alist) > Len(params)
                   /\ (params = <<>> \/ ~(params[Len(params)].eol
                                            \/ params[Len(params)].listmode # LIST_NONE))
    IN  IF ~pre THEN <<Step("precheck", 0, FALSE)>>
        ELSE IF toomany THEN <<Step("precheck", 0, TRUE), Step("count", 0, FALSE)>>
        ELSE <<Step("precheck", 0, TRUE), Step("count", 0, TRUE)>>
                \o PassSteps(b, t, BindPasses(Len(params)), 1)

\* event.text of up to MaxShort characters
ShortTexts == UNION {[1..n -> Chars] : n \in 0..MaxShort}

CallShort == CallWith(ShortTexts)

StepNext ==
    \/ Compile
    \/ CallShort
    \/ EventDone

\* a Binding called with short texts
StepSpec == BindInit /\ [][StepNext]_vars

\* C36: whatever precheck says, a parse() in Binding.bind comes after precheck and
\* the argument count check have passed and validate() of every parameter has
\* passed; if one of these fails, no parse() has run and the handler is not called;
\* the handler is called exactly if no step raised.
C36_ParseAfterAllChecks ==
    called # NotCalled =>
        \A pre \in BOOLEAN : \A tr \in {BindSteps(compiled, text, pre)} :
            LET n == Len(compiled.params)
                checks == {k \in 1..Len(tr) : tr[k].step \in {"precheck", "count", "validate"}}
            IN  /\ \A k \in 1..Len(tr) :
                    tr[k].step = "parse" =>
                        /\ tr[1] = Step("precheck", 0, TRUE)
                        /\ tr[2] = Step("count", 0, TRUE)
                        /\ \A i \in 1..n : \E j \in 1..(k - 1) : tr[j] = Step("validate", i, TRUE)
                /\ (\E k \in checks : ~tr[k].ok) =>
                        \A k \in 1..Len(tr) : tr[k].step \notin {"parse", "call"}
                /\ pre => (tr[Len(tr)].step = "call" <=> called.how = "called")

\* two parameters, the first with an argument to parse, the second a constant whose
\* validate() rejected its argument: nothing was parsed
C36_Witness ==
    /\ called # NotCalled
    /\ Len(compiled.params) = 2
    /\ LET tr == BindSteps(compiled, text, TRUE)
       IN  /\ tr[Len(tr)] = Step("validate", 2, FALSE)
           /\ Len(ArgumentList(text)) = 2
           /\ called.how = "UsageError"

\* ------------------------------------------------- Command: handlers called
\* the bindings whose handler was called
Invoked == {j \in 1..Len(tried) : tried[j].invoked}

GoesOn(e) ==
    /\ e.kind = "UsageError"
    /\ impl = "module" => ~e.final

C40_EventBindingIsTheCalledBinding ==
    /\ result.how = "returned" => (event_binding = result.by /\ tried[result.by].returned)
    /\ (Ended /\ result.how = "raised" /\ Invoked = {}) => event_binding = 0

\* the first binding failed to bind and the second one's handler returned
C40_Witness ==
    /\ Len(tried) = 2
    /\ ~tried[1].invoked
    /\ result = Returned(2)
    /\ event_binding = 2

\* ---------------------------------------------------------------- Bot: reconnecting
\* The Bot's global Throttle (no on_clear) over a connection that comes and goes.
MaxScheduled == 2

\* Bot.on_connect(): self.eventloop.schedule(self.global_throttle.run)
OnConnect ==
    /\ ~connected
    /\ scheduled < MaxScheduled
    /\ connected' = TRUE
    /\ scheduled' = scheduled + 1
    /\ UNCHANGED <<throttle_vars, dep_vars, cmd_vars, bind_vars, reg_vars, bot_vars, who_vars>>

\* Bot.on_disconnect(): self.global_throttle.reset()
OnDisconnect ==
    /\ connected
    /\ NoneBusy
    /\ ResetCall
    /\ connected' = FALSE
    /\ UNCHANGED <<scheduled, dep_vars, cmd_vars, bind_vars, reg_vars, bot_vars, who_vars>>

\* The event loop makes a scheduled call of global_throttle.run().
ScheduledRun ==
    /\ scheduled > 0
    /\ NoneBusy
    /\ RunCall
    /\ scheduled' = scheduled - 1
    /\ UNCHANGED <<connected, dep_vars, cmd_vars, bind_vars, reg_vars, bot_vars, who_vars>>

\* The steps of a run loop whose items do not raise and that has no on_clear.
LoopRuns(l) ==
    \/ LoopTop(l)
    \/ Flush(l)
    \/ ItemReturns(l)
    \/ ItemYields(l)
    \/ AwaitDone(l)
    \/ SleepDone(l)
    \/ NoQueue(l)
    \/ Resume(l)

ReconnectInit ==
    /\ ThrottleInit(Rate) /\ on_clear = "None"
    /\ NoDict /\ NoCommand /\ NoBinding /\ NoRegistry /\ NoClient

ReconnectNext ==
    \/ OnConnect
    \/ OnDisconnect
    \/ ScheduledRun
    \/ Add(1)
    \/ Tick
    \/ \E l \in Loops : LoopRuns(l)

ReconnectSpec == ReconnectInit /\ [][ReconnectNext]_vars

\* Scheduled callbacks are called, awaited futures resolve, timers fire.
ReconnectFairSpec ==
    /\ ReconnectSpec
    /\ WF_vars(ScheduledRun)
    /\ \A l \in Loops : WF_vars(LoopRuns(l))
    /\ SF_vars(Tick)

ConsumerActive == running /\ stop_condition = None /\ \E l \in Loops : pc[l] # "none"

\* C38: once the Bot is connected (on_connect scheduled run() after the reset() of
\* the last on_disconnect), a run loop that no stop was requested of is eventually
\* consuming the global Throttle's queue, unless the connection is lost again.
C38_ReconnectRestartsConsumer == connected ~> (~connected \/ ConsumerActive)

\* ---------------------------------------------------------------- Bot: throttled sends
\* The per-target Throttles and the global one, each reduced to its queue, its
\* scheduled run() calls and whether its loop runs; the bucket arithmetic is the
\* Throttle's above, here a loop may take its next step at any time.
MaxSends == 2

\* a send: <<call, line>>, line i of the text of call k
Send(k, i) == <<k, i>>

IsChannel(target) == target = "#chan"
RateOf(target) == IF IsChannel(target) THEN config.channel_rate ELSE config.user_rate

\* Throttle(burst, rate, on_clear=functools.partial(_on_clear, target))
NewThrottle(target) ==
    [target |-> target, queue |-> <<>>, on_clear |-> TRUE, stop |-> FALSE,
     pending |-> 0, loop |-> FALSE, runs |-> 0]

\* eventloop.schedule(throttle.run)
Schedule(t) == [t EXCEPT !.pending = @ + 1, !.runs = @ + 1]

\* a look-up that never finds the target's Throttle
KnownNever(target) == 0

\* self.target_throttles.get(target)
Known(target) == target_throttles[target]

\* throttled(target, fn) with fn making the send m
ThrottledCall(target, m) ==
    IF target = ""
    THEN \* global_throttle.add(cost, target): functools.partial(None) raises
         /\ bot_raised' = "TypeError"
         /\ UNCHANGED <<target_throttles, throttles, global_queue, direct>>
    ELSE /\ bot_raised' = "none"
         /\ IF Known(target) # 0
            THEN /\ throttles' = [throttles EXCEPT ![Known(target)].queue = Append(@, m)]
                 /\ UNCHANGED <<target_throttles, global_queue, direct>>
            ELSE IF RateOf(target) = 0
            THEN /\ direct' = Append(direct, m)
                 /\ UNCHANGED <<target_throttles, throttles, global_queue>>
            ELSE /\ throttles' = Append(throttles,
                        [Schedule(NewThrottle(target)) EXCEPT !.queue = <<m>>])
                 /\ target_throttles' = [target_throttles EXCEPT ![target] = Len(throttles) + 1]
                 /\ UNCHANGED <<global_queue, direct>>

\* Bot.throttled(target, fn) called as it is
Throttled(target) ==
    /\ calls < MaxSends
    /\ calls' = calls + 1
    /\ asked_lines' = asked_lines \cup (IF target = "" THEN {} ELSE {Send(calls + 1, 1)})
    /\ handed' = handed \cup {Send(calls + 1, 1)}
    /\ ThrottledCall(target, Send(calls + 1, 1))
    /\ UNCHANGED <<config, sent, charged, throttle_vars, dep_vars, cmd_vars, bind_vars,
                   reg_vars, conn_vars, who_vars>>

\* "\n".join(pieces)
RECURSIVE Join(_)
Join(pieces) ==
    IF pieces = <<>> THEN <<>>
    ELSE IF Len(pieces) = 1 THEN pieces[1]
    ELSE pieces[1] \o <<"\n">> \o Join(Tail(pieces))

\* message.replace('\r', '')
NoCR(message) == SelectSeq(message, LAMBDA c : c # "\r")

\* message.split('\n')
RECURSIVE SplitLines(_)
SplitLines(message) ==
    IF \A i \in 1..Len(message) : message[i] # "\n" THEN <<message>>
    ELSE LET at_ == CHOOSE i \in 1..Len(message) :
                        message[i] = "\n" /\ \A j \in 1..(i - 1) : message[j] # "\n"
         IN <<SubSeq(message, 1, at_ - 1)>> \o SplitLines(SubSeq(message, at_ + 1, Len(message)))

\* what self.textwrapper.wrap(message) gives for texts shorter than wrap_length
\* (replace_whitespace=False keeps the newlines), or the message itself (wrap=False)
Messages == {<<<<"a">>>>, <<<<"a", "\n", "b">>>>, <<<<"a">>, <<"b", "\r", "\n", "c">>>>}

\* `for line in ...: return ...`: the lines the loop body is run for
Iterated(lines) == SubSeq(lines, 1, 1)

\* Bot.message() / Bot.notice() through _msgwrapper
BotMessage(target, pieces, throttle) ==
    /\ calls < MaxSends
    /\ calls' = calls + 1
    /\ LET lines == SplitLines(NoCR(Join(pieces)))
           k == calls + 1
       IN /\ asked_lines' = asked_lines \cup
                IF throttle /\ target # "" THEN {Send(k, i) : i \in 1..Len(lines)} ELSE {}
          /\ IF throttle
             THEN /\ handed' = handed \cup {Send(k, i) : i \in 1..Len(Iterated(lines))}
                  /\ ThrottledCall(target, Send(k, 1))
             ELSE \* `return target(parent, target, line)`: target is a str
                  /\ bot_raised' = "TypeError"
                  /\ UNCHANGED <<handed, target_throttles, throttles, global_queue, direct>>
    /\ UNCHANGED <<config, sent, charged, throttle_vars, dep_vars, cmd_vars, bind_vars,
                   reg_vars, conn_vars, who_vars>>

bot_rest == <<throttle_vars, dep_vars, cmd_vars, bind_vars, reg_vars, conn_vars, who_vars,
              config, asked_lines, handed, calls, bot_raised>>

\* The event loop makes the scheduled call of a per-target Throttle's run().
TargetRun(i) ==
    /\ throttles[i].pending > 0
    /\ throttles' = [throttles EXCEPT ![i] =
            IF @.loop THEN [@ EXCEPT !.pending = @ - 1]
            ELSE [@ EXCEPT !.pending = @ - 1, !.loop = TRUE, !.stop = FALSE]]
    /\ UNCHANGED <<target_throttles, global_queue, direct, sent, charged, bot_rest>>

\* The loop executes its next item: _relay(cost, fn) adds fn to the global Throttle.
TargetRelay(i) ==
    /\ throttles[i].loop /\ ~throttles[i].stop
    /\ throttles[i].queue # <<>>
    /\ throttles' = [throttles EXCEPT ![i].queue = Tail(@)]
    /\ global_queue' = Append(global_queue, Head(throttles[i].queue))
    /\ UNCHANGED <<target_throttles, direct, sent, charged, bot_rest>>

\* The loop finds its queue empty and the bucket full: _on_clear(target, throttle)
TargetOnClear(i) ==
    /\ throttles[i].loop /\ ~throttles[i].stop
    /\ throttles[i].queue = <<>>
    /\ throttles[i].on_clear
    /\ throttles' = [throttles EXCEPT ![i].stop = TRUE]
    /\ target_throttles' = [t \in Mapped |->
            IF target_throttles[t] = i /\ t = throttles[i].target THEN 0
            ELSE target_throttles[t]]
    /\ UNCHANGED <<global_queue, direct, sent, charged, bot_rest>>

\* The loop sees the stop condition and ends.
TargetExit(i) ==
    /\ throttles[i].loop /\ throttles[i].stop
    /\ throttles' = [throttles EXCEPT ![i].loop = FALSE]
    /\ UNCHANGED <<target_throttles, global_queue, direct, sent, charged, bot_rest>>

\* The global Throttle's loop executes its next item: fn() makes the send.
GlobalSend ==
    /\ global_queue # <<>>
    /\ global_queue' = Tail(global_queue)
    /\ charged' = charged \cup {Head(global_queue)}
    /\ sent' = Append(sent, Head(global_queue))
    /\ UNCHANGED <<target_throttles, throttles, direct, bot_rest>>

\* The event loop calls an fn that was given to eventloop.schedule() as it is.
DirectSend ==
    /\ direct # <<>>
    /\ direct' = Tail(direct)
    /\ sent' = Append(sent, Head(direct))
    /\ UNCHANGED <<target_throttles, throttles, global_queue, charged, bot_rest>>

\* Bot.on_disconnect(): every per-target Throttle leaves the map and is reset,
\* the global Throttle is reset.
Disconnect ==
    /\ throttles' = [i \in 1..Len(throttles) |->
            IF \E t \in Mapped : target_throttles[t] = i
            THEN [throttles[i] EXCEPT !.on_clear = FALSE, !.stop = TRUE, !.queue = <<>>]
            ELSE throttles[i]]
    /\ target_throttles' = [t \in Mapped |-> 0]
    /\ global_queue' = <<>>
    /\ UNCHANGED <<direct, sent, charged, bot_rest>>

Rates == {0, 1}

BotInit ==
    /\ ThrottleInit(Rate) /\ on_clear = "None"
    /\ NoDict /\ NoCommand /\ NoBinding /\ NoRegistry /\ NoConnection /\ NoWhois
    /\ \E c \in Rates, u \in Rates : NewBot([channel_rate |-> c, user_rate |-> u])

BotNext ==
    \/ \E target \in BotTargets : Throttled(target)
    \/ \E target \in BotTargets, pieces \in Messages, throttle \in BOOLEAN :
            BotMessage(target, pieces, throttle)
    \/ \E i \in 1..Len(throttles) : TargetRun(i)
    \/ \E i \in 1..Len(throttles) : TargetRelay(i)
    \/ \E i \in 1..Len(throttles) : TargetOnClear(i)
    \/ \E i \in 1..Len(throttles) : TargetExit(i)
    \/ GlobalSend
    \/ DirectSend
    \/ Disconnect

BotSpec == BotInit /\ [][BotNext]_vars

\* C31: a target in the per-target map is mapped to a Throttle made for it, which
\* was never stopped and has exactly one run loop (one run() call scheduled in all,
\* either still to be made or the loop that runs); a Throttle is created only for
\* a target that is not in the map, and is put into the map in the same step.
C31_OneThrottleOneLoopPerTarget ==
    /\ [](\A t \in Mapped : target_throttles[t] # 0 =>
            LET T == throttles[target_throttles[t]]
            IN /\ T.target = t
               /\ ~T.stop
               /\ T.runs = 1
               /\ (T.pending = 1 /\ ~T.loop) \/ (T.pending = 0 /\ T.loop))
    /\ [][Len(throttles') # Len(throttles) =>
            /\ Len(throttles') = Len(throttles) + 1
            /\ \E t \in Mapped :
                /\ target_throttles[t] = 0
                /\ target_throttles'[t] = Len(throttles')
                /\ \A u \in Mapped \ {t} : target_throttles'[u] = target_throttles[u]]_vars

\* two calls for one target while its Throttle's loop runs: one Throttle holds both
C31_Witness ==
    /\ calls = 2
    /\ Len(throttles) = 1
    /\ target_throttles["nick"] = 1
    /\ throttles[1].loop
    /\ Len(throttles[1].queue) = 1
    /\ Len(global_queue) = 1

\* C32: every send that was made had been executed by the global Throttle's loop.
C32_SentPassedGlobalThrottle == \A i \in 1..Len(sent) : sent[i] \in charged

\* C33: every line of every text given to a message()/notice() that returned
\* reached throttled().
C33_EveryLineHanded == asked_lines \subseteq handed

\* ---------------------------------------------------------------- UserTrackingClient.whois
MaxWhois == 2

\* the nicknames of the call that get a new Future (`nickname in self._pending['whois']`)
Fresh(nicknames) == nicknames \ pending

\* the loop's drop_nicknames is filled and never used: every nickname is asked for
Asked(nicknames) == nicknames

\* whois(nickname) with a list of nicknames, by caller c
Whois(c, nicknames) ==
    /\ awaited[c] = {}
    /\ \A n \in nicknames : in_flight[n] < MaxWhois
    /\ pending' = pending \cup Fresh(nicknames)
    /\ in_flight' = [n \in Nicks |-> IF n \in Asked(nicknames) THEN in_flight[n] + 1
                                     ELSE in_flight[n]]
    /\ awaited' = [awaited EXCEPT ![c] = nicknames]
    /\ UNCHANGED <<received, throttle_vars, dep_vars, cmd_vars, bind_vars, reg_vars,
                   conn_vars, bot_vars>>

\* on_raw_318, the end of the reply to one WHOIS for n: the pending Future is
\* resolved and every caller that holds it gets the result
EndOfWhois(n) ==
    /\ in_flight[n] > 0
    /\ in_flight' = [in_flight EXCEPT ![n] = @ - 1]
    /\ pending' = pending \ {n}
    /\ awaited' = [c \in Callers |-> IF n \in pending THEN awaited[c] \ {n} ELSE awaited[c]]
    /\ received' = [c \in Callers |->
            IF n \in pending /\ n \in awaited[c] THEN received[c] \cup {n} ELSE received[c]]
    /\ UNCHANGED <<throttle_vars, dep_vars, cmd_vars, bind_vars, reg_vars, conn_vars,
                   bot_vars>>

WhoisInit ==
    /\ ThrottleInit(Rate) /\ on_clear = "None"
    /\ NoDict /\ NoCommand /\ NoBinding /\ NoRegistry /\ NoClient

WhoisNext ==
    \/ \E c \in Callers, nicknames \in SUBSET Nicks \ {{}} : Whois(c, nicknames)
    \/ \E n \in Nicks : EndOfWhois(n)

WhoisSpec == WhoisInit /\ [][WhoisNext]_vars

\* C34: at most one WHOIS request is in flight for a nickname.
C34_OneWhoisInFlight == \A n \in Nicks : in_flight[n] <= 1

TypeOK ==
    /\ free \in Scaled(Burst - MaxCost)..Scaled(Burst)
    /\ elapsed \in 0..ElapsedCap
    /\ running \in BOOLEAN
    /\ \A l \in Loops : pc[l] \in {"none", "top", "flush", "exec", "await_item",
                                    "raising", "sleep_cap", "noqueue", "on_clear",
                                    "wait_work", "wait_timed", "woken"}
====
